---- MODULE Spec2Model ----
(***************************************************************************)
(* A model of the request-resilience decorators of the transport package:  *)
(* the Retry decorator with its retry policies and backoffers (retry.go),  *)
(* the Hedger (hedger.go), RetryAfter (retryafter.go), and the Recycler    *)
(* and the Rotator (recycle.go, rotate.go).  Cancellation tokens are Go    *)
(* contexts; time is a discrete clock.                                     *)
(***************************************************************************)
EXTENDS Integers, Sequences, FiniteSets, TLC

\* ------------------------------------------------------------------ bounds
\* RoundTrip calls the application makes on one decorator.
NumCalls == 2
\* Last instant of the discrete clock.
MaxTime == 3
\* Cap on the transport invocations of one RoundTrip (unbounded retriers).
MaxAttempts == 3
\* Largest ceiling given to NewLimitedRetryPolicy.
MaxLimit == 2
\* Cap on the backoffers one exponential policy returns, and on the calls
\* made to each.
MaxBackoffers == 3
MaxCalls == 3
\* Cap on the requests made on one Recycler or Rotator, and on the values
\* external code sends on a signal channel.
MaxRequests == 4
MaxSignals == 2
\* Longest Chain, and the cap on the transports built from one Chain.
MaxChain == 3
MaxTransports == 2
\* Longest base duration given to calculateJitteredBackoff, and the number
\* of steps into which the unit interval of its float64 arguments is cut.
MaxBase == 4
Grain == 4
\* Longest request body, in bytes.
MaxLen == 2
\* Cap on the readers one requestCopier hands out.
MaxBuffers == 3
\* Cap on the Header.Set calls one attempt's transport makes.
MaxWrites == 2
\* Last instant of the clock of a RetryAfter.RoundTrip, in milliseconds.
MaxWait == 70
\* Longest time a transport call of RetryAfter takes, in milliseconds.
MaxLatency == 1
\* Cap on the attempts one Hedger.RoundTrip starts.
MaxHedges == 3
\* Longest interval of the Hedger's FixedBackoffer.
MaxInterval == 2

\* ------------------------------------------------------- program constants
StatusOK == 200
StatusInternalServerError == 500
StatusTooManyRequests == 429
\* time.Millisecond, in instants of the clock of a RetryAfter.RoundTrip.
Millisecond == 1
\* The start of the exponential backoff of NewRetryAfter, 20 * time.Millisecond.
Seed == 20
\* A nil *http.Response.
NoResponse == 0

Calls == 1..NumCalls
StatusCodes == {StatusOK, StatusInternalServerError}
\* A nil error.
NoErr == "nil"
Canceled == "Canceled"
DeadlineExceeded == "DeadlineExceeded"
\* An error of the wrapped transport that no stock retrier matches.
TransportErr == "EOF"
\* The I/O error of draining the request body.
BodyErr == "ErrBody"

VARIABLES
    now,        \* the clock
    decorator,  \* the decorator the application calls: "Retry", "Hedger",
                \* "RetryAfter", "Recycler", "Rotator" or "Chain"
    cfg,        \* the Retry decorator: [backoff, retryPolicies]
    callers,    \* the calls the application makes in this run
    heap,       \* the Retrier objects, by address (index)
    pc,         \* per call: "idle", "inflight", "select", "returned"
    parentCtx,  \* per call: the context of the caller's request
    retriers,   \* per call: the addresses of the retriers of this RoundTrip
    attempts,   \* per call: the attempts made, [start, ctx], in order
    results,    \* per call: the (response, error) pairs the transport returned,
                \* each with parentCtx.Err() at that moment
    timer,      \* per call: the instant the pending time.After fires
    ret,        \* per call: what RoundTrip returned, [via, resp, err]
    \* Hedger.RoundTrip (one call)
    hBackoff,   \* the wait of the Hedger's FixedBackoffer
    hpc,        \* "idle", "select", "returned"
    hParentCtx, \* the context of the caller's request
    hDoneCtx,   \* doneCtx
    hAttempts,  \* the hedgedRoundTrip goroutines started, in order
    hTimer,     \* the instant the pending time.After fires
    hRet,       \* what RoundTrip returned, [via, resp, err]
    \* the requests of the attempts of one Hedger.RoundTrip
    original,   \* the caller's request, [header, body, ctx]
    headerMaps, \* the http.Header maps, by address (index)
    requests,   \* the request handed to each attempt's transport call
    writing,    \* per attempt: the Header.Set in progress, or NoWrite
    written,    \* per attempt: the Header.Set calls completed
    crashed,    \* the runtime has stopped the program
    \* RetryAfter.RoundTrip (one call)
    aBackoffPolicy, \* the decorator's backoffPolicy: "exponential", or "none"
                    \* for the RetryAfter that has no such field
    apc,        \* "idle", "inflight", "select", "returned"
    aParentCtx, \* the context of the caller's request
    aRetryAfter,\* retryAfter, in instants
    aBackoffs,  \* the calls made to this RoundTrip's backoffer
    aAttempts,  \* the transport calls made, [start, ctx, copy], in order
    aResults,   \* what they returned, [resp, header, err, at]
    aTimer,     \* the instant the pending time.After fires
    aRet,       \* what RoundTrip returned, [via, resp, header, err]
    \* one requestCopier and the bodies of its copies
    rcOriginal, \* the caller's request: [hasBody, bytes]
    rcBody,     \* requestCopier.body: the bytes drained, or Nil
    rcBuffers,  \* the bytes.Buffer readers over rcBody, by address: [off]
    rcCopies,   \* the requests Copy returned: [body], a buffer address or 0
    rcOutputs,  \* per buffer: the bytes read from it so far
    \* the stock backoffers
    ebSeed,     \* the argument of NewExponentialBackoffPolicy
    ebAttempts, \* the backoffers the policy returned: the calls made to each
    ebDelays,   \* per backoffer: the delays it returned, in order
    jIn,        \* the arguments of calculateJitteredBackoff, or NoCall
    jOut,       \* what it returned
    \* the Recycler and the Rotator
    pool,         \* the options: [ttl, ttlJitter, maxUsage, signals, numberOfInstances]
    wrapped,      \* Recycler.wrapped: the current instance
    nextTTL,      \* Recycler.nextTTL
    currentUsage, \* Recycler.currentUsage
    currentOffset, \* Rotator.currentOffset
    factoryCalls, \* the instances the factory has built; instance k is the k-th
    lock,         \* the goroutine holding the mutex, or Unlocked
    source,       \* the values buffered in the external signal channel
    listener,     \* where the listenOne goroutine is
    sent,         \* the values external code has sent so far
    trips,        \* per goroutine: [pc, rt, on] of its RoundTrip
    selects,      \* how many requests have resolved their instance
    selected,     \* the last of these resolutions, or NoSelection
    instances,    \* Rotator.instances
    picks,        \* per instance: the requests that resolved it
    \* the Chain
    chain,        \* the Chain: its decorators, by name, in the order given
    built,        \* the transports Apply returned: [decorators, base]
    baseCalls,    \* the calls made to the factory given to ApplyFactory
    passing,      \* the request under way: [transport, depth], or NoPass
    annotations   \* the decorators this request reached, in order, and "base"

\* The state of the Retry decorator and of its calls.
rvars == <<cfg, callers, heap, pc, parentCtx, retriers, attempts, results, timer, ret>>
\* The state of the Hedger and of its call.
hvars == <<hBackoff, hpc, hParentCtx, hDoneCtx, hAttempts, hTimer, hRet>>
\* The requests of the attempts and their headers.
cvars == <<original, headerMaps, requests, writing, written, crashed>>
\* The state of the RetryAfter decorator and of its call.
avars == <<aBackoffPolicy, apc, aParentCtx, aRetryAfter, aBackoffs, aAttempts, aResults, aTimer, aRet>>
\* The state of a requestCopier and of the readers it handed out.
rcvars == <<rcOriginal, rcBody, rcBuffers, rcCopies, rcOutputs>>
\* The state of the stock backoffers.
bvars == <<ebSeed, ebAttempts, ebDelays, jIn, jOut>>
\* The state of a Recycler or a Rotator and of the calls made on it.
pvars == <<pool, wrapped, nextTTL, currentUsage, currentOffset, factoryCalls,
           lock, source, listener, sent, trips, selects, selected, instances, picks>>
\* The state of a Chain and of the transports built from it.
chvars == <<chain, built, baseCalls, passing, annotations>>
vars == <<now, decorator, rvars, hvars, cvars, avars, rcvars, bvars, pvars, chvars>>
\* What a step of Retry, of the Hedger, of an attempt's transport, and of
\* RetryAfter leaves alone.
notRetry == <<decorator, hvars, cvars, avars, rcvars, bvars, pvars, chvars>>
notHedger == <<decorator, rvars, cvars, avars, rcvars, bvars, pvars, chvars>>
notCopier == <<now, decorator, rvars, hvars, avars, rcvars, bvars, pvars, chvars>>
notAfter == <<decorator, rvars, hvars, cvars, rcvars, bvars, pvars, chvars>>
notReplay == <<now, decorator, rvars, hvars, cvars, avars, bvars, pvars, chvars>>
notBackoff == <<now, decorator, rvars, hvars, cvars, avars, rcvars, pvars, chvars>>
notPool == <<decorator, rvars, hvars, cvars, avars, rcvars, bvars, chvars>>
notChain == <<now, decorator, rvars, hvars, cvars, avars, rcvars, bvars, pvars>>

\* ---------------------------------------------------------------- contexts
\* A context is [hasDeadline, deadline, err]; err # NoErr means Done.
Background == [hasDeadline |-> FALSE, deadline |-> 0, err |-> NoErr]

\* context.WithCancel(parent): same deadline, already done when the parent is.
WithCancel(parent) == parent

\* context.WithTimeout(parent, d) at instant t.
WithTimeout(parent, d, t) ==
    IF parent.hasDeadline /\ parent.deadline < t + d
    THEN WithCancel(parent)
    ELSE [hasDeadline |-> TRUE, deadline |-> t + d,
          err |-> IF parent.err # NoErr THEN parent.err
                  ELSE IF d <= 0 THEN DeadlineExceeded ELSE NoErr]

\* The deadline of ctx passes at instant t.
Expire(ctx, t) ==
    IF ctx.err = NoErr /\ ctx.hasDeadline /\ ctx.deadline <= t
    THEN [ctx EXCEPT !.err = DeadlineExceeded] ELSE ctx

\* cancel(), or the cancellation of an ancestor with error e.
CancelCtx(ctx, e) == IF ctx.err = NoErr THEN [ctx EXCEPT !.err = e] ELSE ctx

\* ---------------------------------------------------------------- retriers
\* A Retrier object on the heap.
StatusCodeRetrier(codes) ==
    [kind |-> "status", codes |-> codes, timeout |-> 0, limit |-> 0, attempts |-> 0, retries |-> <<>>]
TimeoutRetrier(timeout) ==
    [kind |-> "timeout", codes |-> {}, timeout |-> timeout, limit |-> 0, attempts |-> 0, retries |-> <<>>]
LimitedRetrier(limit, retries) ==
    [kind |-> "limited", codes |-> {}, timeout |-> 0, limit |-> limit, attempts |-> 0, retries |-> retries]

\* The timeout given to NewTimeoutRetryPolicy.
PolicyTimeout == 1
\* The two stateless retriers are built when their policy is built.
StatusAddr == 1
TimeoutAddr == 2
InitHeap == <<StatusCodeRetrier({StatusInternalServerError}), TimeoutRetrier(PolicyTimeout)>>

\* A RetryPolicy (a factory of retriers).
NewStatusCodeRetryPolicy == [kind |-> "status", inst |-> StatusAddr, limit |-> 0, policies |-> <<>>]
NewTimeoutRetryPolicy == [kind |-> "timeout", inst |-> TimeoutAddr, limit |-> 0, policies |-> <<>>]
NewLimitedRetryPolicy(limit, policies) == [kind |-> "limited", inst |-> 0, limit |-> limit, policies |-> policies]

RECURSIVE MakeRetriers(_, _)
RECURSIVE CallPolicy(_, _)
\* A bounded policy that builds its LimitedRetrier once and hands the same
\* object to every call, as the stateless policies do.
CallPolicy_Shared(p, h) ==
    IF p.kind = "limited"
    THEN IF \E id \in 1..Len(h) : h[id].kind = "limited" /\ h[id].limit = p.limit
         THEN [heap |-> h,
               id |-> CHOOSE id \in 1..Len(h) : h[id].kind = "limited" /\ h[id].limit = p.limit]
         ELSE LET inner == MakeRetriers(p.policies, h)
              IN [heap |-> Append(inner.heap, LimitedRetrier(p.limit, inner.ids)),
                  id |-> Len(inner.heap) + 1]
    ELSE [heap |-> h, id |-> p.inst]
\* policy(): the retrier's address and the heap after the call.
CallPolicy(p, h) ==
    IF p.kind = "limited"
    THEN LET inner == MakeRetriers(p.policies, h)
         IN [heap |-> Append(inner.heap, LimitedRetrier(p.limit, inner.ids)),
             id |-> Len(inner.heap) + 1]
    ELSE [heap |-> h, id |-> p.inst]
\* The loop `retriers = append(retriers, policy())`.
MakeRetriers(ps, h) ==
    IF ps = <<>> THEN [heap |-> h, ids |-> <<>>]
    ELSE LET one == CallPolicy(Head(ps), h)
             rest == MakeRetriers(Tail(ps), one.heap)
         IN [heap |-> rest.heap, ids |-> <<one.id>> \o rest.ids]

RECURSIVE RetrierRetry(_, _, _, _)
RECURSIVE AnyRetry(_, _, _, _)
RECURSIVE AnyRetry_All(_, _, _, _)
\* A loop that asks every retrier before it answers.
AnyRetry_All(ids, h, resp, e) ==
    IF ids = <<>> THEN [heap |-> h, vote |-> FALSE]
    ELSE LET one == RetrierRetry(Head(ids), h, resp, e)
             rest == AnyRetry_All(Tail(ids), one.heap, resp, e)
         IN [heap |-> rest.heap, vote |-> one.vote \/ rest.vote]
\* The loop `for _, retrier := range ids { if retrier.Retry(..) { return true } }`.
AnyRetry(ids, h, resp, e) ==
    IF ids = <<>> THEN [heap |-> h, vote |-> FALSE]
    ELSE LET one == RetrierRetry(Head(ids), h, resp, e)
         IN IF one.vote THEN one ELSE AnyRetry(Tail(ids), one.heap, resp, e)
\* A StatusCodeRetrier that forgets to compare the code.
StatusRetry_AnyResponse(r, resp, e) == r.codes # {} /\ resp # NoResponse
\* StatusCodeRetrier.Retry
StatusRetry(r, resp, e) == \E code \in r.codes : resp # NoResponse /\ resp = code
\* TimeoutRetrier.Retry
TimeoutRetry(r, resp, e) == e = DeadlineExceeded
\* A LimitedRetrier that forgets to count the attempt.
LimitedRetry_NoCount(id, h, resp, e) ==
    IF h[id].attempts >= h[id].limit
    THEN [heap |-> h, vote |-> FALSE]
    ELSE AnyRetry(h[id].retries, h, resp, e)
\* A LimitedRetrier whose ceiling test is off by one.
LimitedRetry_OffByOne(id, h, resp, e) ==
    IF h[id].attempts > h[id].limit
    THEN [heap |-> h, vote |-> FALSE]
    ELSE AnyRetry(h[id].retries, [h EXCEPT ![id].attempts = @ + 1], resp, e)
\* LimitedRetrier.Retry on the object at address id.
LimitedRetry(id, h, resp, e) ==
    IF h[id].attempts >= h[id].limit
    THEN [heap |-> h, vote |-> FALSE]
    ELSE AnyRetry(h[id].retries, [h EXCEPT ![id].attempts = @ + 1], resp, e)
\* retrier.Retry(req, resp, e), by dynamic type.
RetrierRetry(id, h, resp, e) ==
    CASE h[id].kind = "status" -> [heap |-> h, vote |-> StatusRetry(h[id], resp, e)]
      [] h[id].kind = "timeout" -> [heap |-> h, vote |-> TimeoutRetry(h[id], resp, e)]
      [] h[id].kind = "limited" -> LimitedRetry(id, h, resp, e)
\* Retry.shouldRetry
shouldRetry(ids, h, resp, e) == AnyRetry(ids, h, resp, e)

RECURSIVE RetrierRequest(_, _, _, _)
RECURSIVE ApplyRequesters(_, _, _, _)
\* The loop `if requester, ok := retrier.(Requester); ok { req = requester.Request(req) }`.
ApplyRequesters(ids, h, ctx, t) ==
    IF ids = <<>> THEN ctx
    ELSE ApplyRequesters(Tail(ids), h, RetrierRequest(Head(ids), h, ctx, t), t)
\* A TimeoutRetrier that passes the request on without a deadline.
TimeoutRequest_NoTimeout(r, ctx, t) == ctx
\* TimeoutRetrier.Request
TimeoutRequest(r, ctx, t) == WithTimeout(ctx, r.timeout, t)
\* Request, for the retriers that implement Requester.
RetrierRequest(id, h, ctx, t) ==
    CASE h[id].kind = "timeout" -> TimeoutRequest(h[id], ctx, t)
      [] h[id].kind = "limited" -> ApplyRequesters(h[id].retries, h, ctx, t)
      [] OTHER -> ctx

\* FixedBackoffer.Backoff
Backoff(c) == c.backoff

\* ------------------------------------------------------------ configuration
Leaves == {<<NewStatusCodeRetryPolicy>>, <<NewTimeoutRetryPolicy>>,
           <<NewStatusCodeRetryPolicy, NewTimeoutRetryPolicy>>}
PolicyLists ==
    Leaves
    \cup {<<NewLimitedRetryPolicy(n, ps)>> : n \in 0..MaxLimit, ps \in Leaves}
    \cup {<<NewLimitedRetryPolicy(1, <<NewStatusCodeRetryPolicy>>),
            NewLimitedRetryPolicy(1, <<NewTimeoutRetryPolicy>>)>>}
    \cup {<<NewLimitedRetryPolicy(n1, <<NewStatusCodeRetryPolicy>>),
            NewLimitedRetryPolicy(n2, <<NewStatusCodeRetryPolicy>>)>> :
                n1 \in 0..1, n2 \in 0..1}
\* NewRetrier(backoffPolicy, retryPolicies...)
Configs == [backoff : 0..1, retryPolicies : PolicyLists]

\* ------------------------------------------------------------------ actions
NoRet == [via |-> "none", resp |-> NoResponse, err |-> NoErr]

\* The deferred cancel() calls run when RoundTrip returns.
DeferredCancels(as) == [i \in 1..Len(as) |-> [as[i] EXCEPT !.ctx = CancelCtx(@, Canceled)]]

\* One attempt's request: a child of parentCtx, passed through the Requesters.
NewAttempt(c, h, t) ==
    [start |-> t, ctx |-> ApplyRequesters(retriers[c], h, WithCancel(parentCtx[c]), t)]

\* What the wrapped transport may return for a request with context ctx.
Outcomes(ctx) ==
    {[resp |-> s, err |-> NoErr] : s \in StatusCodes}
    \cup {[resp |-> NoResponse, err |-> TransportErr]}
    \cup (IF ctx.err # NoErr THEN {[resp |-> NoResponse, err |-> ctx.err]} ELSE {})

\* A loop that shadows `response, e`, so that the first pair is returned.
ReturnLast_First(rs) == [via |-> "attempt", resp |-> rs[1].resp, err |-> rs[1].err]
\* `return response, e` after the loop: the pair of the last attempt.
ReturnLast(rs) == [via |-> "attempt", resp |-> rs[Len(rs)].resp, err |-> rs[Len(rs)].err]

\* The callers' contexts: with no deadline, or with one ahead.
CallerContexts ==
    {Background} \cup {[hasDeadline |-> TRUE, deadline |-> d, err |-> NoErr] : d \in (now + 1)..MaxTime}

\* A Retry that looks at the error of newRequestCopier only after it has
\* built its retriers and called the wrapped transport.
RoundTripStart_CopierErrorLate(c) ==
    /\ decorator = "Retry"
    /\ pc[c] = "idle"
    /\ c \in callers
    /\ \E bodyOK \in BOOLEAN, ctx \in CallerContexts :
        /\ parentCtx' = [parentCtx EXCEPT ![c] = ctx]
        /\ IF ~bodyOK
           THEN /\ ret' = [ret EXCEPT ![c] = [via |-> "copier", resp |-> NoResponse, err |-> BodyErr]]
                /\ pc' = [pc EXCEPT ![c] = "returned"]
                /\ LET made == MakeRetriers(cfg.retryPolicies, heap)
                   IN /\ heap' = made.heap
                      /\ retriers' = [retriers EXCEPT ![c] = made.ids]
                      /\ attempts' = [attempts EXCEPT ![c] =
                             <<[start |-> now,
                                ctx |-> ApplyRequesters(made.ids, made.heap, WithCancel(ctx), now)]>>]
           ELSE LET made == MakeRetriers(cfg.retryPolicies, heap)
                IN /\ heap' = made.heap
                   /\ retriers' = [retriers EXCEPT ![c] = made.ids]
                   /\ attempts' = [attempts EXCEPT ![c] =
                          <<[start |-> now,
                             ctx |-> ApplyRequesters(made.ids, made.heap, WithCancel(ctx), now)]>>]
                   /\ pc' = [pc EXCEPT ![c] = "inflight"]
                   /\ UNCHANGED ret
    /\ UNCHANGED <<now, cfg, callers, results, timer>>
    /\ UNCHANGED notRetry

\* Retry.RoundTrip, up to the first call of the wrapped transport.
RoundTripStart(c) ==
    /\ decorator = "Retry"
    /\ pc[c] = "idle"
    /\ c \in callers
    /\ \E bodyOK \in BOOLEAN, ctx \in CallerContexts :
        /\ parentCtx' = [parentCtx EXCEPT ![c] = ctx]
        /\ IF ~bodyOK
           THEN /\ ret' = [ret EXCEPT ![c] = [via |-> "copier", resp |-> NoResponse, err |-> BodyErr]]
                /\ pc' = [pc EXCEPT ![c] = "returned"]
                /\ UNCHANGED <<heap, retriers, attempts>>
           ELSE LET made == MakeRetriers(cfg.retryPolicies, heap)
                IN /\ heap' = made.heap
                   /\ retriers' = [retriers EXCEPT ![c] = made.ids]
                   /\ attempts' = [attempts EXCEPT ![c] =
                          <<[start |-> now,
                             ctx |-> ApplyRequesters(made.ids, made.heap, WithCancel(ctx), now)]>>]
                   /\ pc' = [pc EXCEPT ![c] = "inflight"]
                   /\ UNCHANGED ret
    /\ UNCHANGED <<now, cfg, callers, results, timer>>
    /\ UNCHANGED notRetry

\* The wrapped transport returns; shouldRetry decides between the return of
\* this result and the select on the backoff timer.
TransportReturn(c) ==
    /\ pc[c] = "inflight"
    /\ \E o \in Outcomes(attempts[c][Len(attempts[c])].ctx) :
        LET d == shouldRetry(retriers[c], heap, o.resp, o.err)
        IN /\ results' = [results EXCEPT ![c] =
                  Append(@, [resp |-> o.resp, err |-> o.err, parentErr |-> parentCtx[c].err])]
           /\ heap' = d.heap
           /\ IF d.vote
              THEN /\ pc' = [pc EXCEPT ![c] = "select"]
                   /\ timer' = [timer EXCEPT ![c] = now + Backoff(cfg)]
                   /\ UNCHANGED <<ret, attempts>>
              ELSE /\ pc' = [pc EXCEPT ![c] = "returned"]
                   /\ ret' = [ret EXCEPT ![c] = ReturnLast(Append(results[c], o))]
                   /\ attempts' = [attempts EXCEPT ![c] = DeferredCancels(@)]
                   /\ UNCHANGED timer
    /\ UNCHANGED <<now, cfg, callers, parentCtx, retriers>>
    /\ UNCHANGED notRetry

\* select: case <-parentCtx.Done()
SelectDone(c) ==
    /\ pc[c] = "select"
    /\ parentCtx[c].err # NoErr
    /\ pc' = [pc EXCEPT ![c] = "returned"]
    /\ ret' = [ret EXCEPT ![c] = [via |-> "parent", resp |-> NoResponse, err |-> parentCtx[c].err]]
    /\ attempts' = [attempts EXCEPT ![c] = DeferredCancels(@)]
    /\ UNCHANGED <<now, cfg, callers, heap, parentCtx, retriers, results, timer>>
    /\ UNCHANGED notRetry

\* select: case <-time.After(backoff), then the next attempt.
SelectTimer(c) ==
    /\ pc[c] = "select"
    /\ now >= timer[c]
    /\ Len(attempts[c]) < MaxAttempts
    /\ attempts' = [attempts EXCEPT ![c] = Append(@, NewAttempt(c, heap, now))]
    /\ pc' = [pc EXCEPT ![c] = "inflight"]
    /\ UNCHANGED <<now, cfg, callers, heap, parentCtx, retriers, results, timer, ret>>
    /\ UNCHANGED notRetry

\* The caller cancels the context of its request while RoundTrip runs.
CancelParent(c) ==
    /\ pc[c] \in {"inflight", "select"}
    /\ parentCtx[c].err = NoErr
    /\ parentCtx' = [parentCtx EXCEPT ![c] = CancelCtx(@, Canceled)]
    /\ attempts' = [attempts EXCEPT ![c] =
           [i \in 1..Len(@) |-> [@[i] EXCEPT !.ctx = CancelCtx(@, Canceled)]]]
    /\ UNCHANGED <<now, cfg, callers, heap, pc, retriers, results, timer, ret>>
    /\ UNCHANGED notRetry

\* A select with a ready case does not wait.
SelectReady(c) == pc[c] = "select" /\ (parentCtx[c].err # NoErr \/ now >= timer[c])

\* Time passes; the contexts of the running calls whose deadline is reached expire.
Tick ==
    /\ now < MaxTime
    /\ \E c \in Calls : pc[c] \in {"inflight", "select"}
    /\ \A c \in Calls : ~SelectReady(c)
    /\ now' = now + 1
    /\ parentCtx' = [c \in Calls |->
           IF pc[c] = "returned" THEN parentCtx[c] ELSE Expire(parentCtx[c], now + 1)]
    /\ attempts' = [c \in Calls |->
           IF pc[c] = "returned" THEN attempts[c]
           ELSE [i \in 1..Len(attempts[c]) |->
                    [attempts[c][i] EXCEPT !.ctx = Expire(@, now + 1)]]]
    /\ UNCHANGED <<cfg, callers, heap, pc, retriers, results, timer, ret>>
    /\ UNCHANGED notRetry

HeaderKeys == {"key"}
HeaderValues == {"value", "other"}
NoValue == "none"
NoWrite == <<>>
\* The header of the caller's request, held at address 1.
InitialHeader == [k \in HeaderKeys |-> NoValue]

InitCopier ==
    /\ original = [header |-> 1, body |-> 0, ctx |-> 0]
    /\ headerMaps = <<InitialHeader>>
    /\ requests = <<>>
    /\ writing = <<>>
    /\ written = <<>>
    /\ crashed = FALSE
\* No Hedger call hands out requests.
InitNoCopier == InitCopier

\* Header.Get("Retry-After") of a response without the header.
NoHeader == <<>>
AfterNoRet == [via |-> "none", resp |-> NoResponse, header |-> NoHeader, err |-> NoErr]
\* A RetryAfter.RoundTrip not yet called.
InitAfterCall ==
    /\ apc = "idle"
    /\ aParentCtx = Background
    /\ aRetryAfter = 0
    /\ aBackoffs = 0
    /\ aAttempts = <<>>
    /\ aResults = <<>>
    /\ aTimer = 0
    /\ aRet = AfterNoRet
\* The RetryAfter decorator is not used.
InitNoAfter ==
    /\ aBackoffPolicy = "none"
    /\ InitAfterCall

\* A nil body, and a nil []byte.
Nil == "nil"
\* No requestCopier hands out readers.
InitNoReplay ==
    /\ rcOriginal = [hasBody |-> FALSE, bytes |-> <<>>]
    /\ rcBody = Nil
    /\ rcBuffers = <<>>
    /\ rcCopies = <<>>
    /\ rcOutputs = <<>>

\* No request is passing through a chained transport.
NoPass == <<>>
\* No Chain is used.
InitNoChain ==
    /\ chain = <<>>
    /\ built = <<>>
    /\ baseCalls = 0
    /\ passing = NoPass
    /\ annotations = <<>>

\* The zero time.Time, before every instant of the clock.
ZeroTime == -1
\* The mutex is free.
Unlocked == 0
\* No request has resolved an instance yet.
NoSelection == <<>>
\* Neither a Recycler nor a Rotator is used.
InitNoPool ==
    /\ pool = [ttl |-> 0, ttlJitter |-> 0, maxUsage |-> 0, signals |-> 0, numberOfInstances |-> 0]
    /\ wrapped = 0
    /\ nextTTL = ZeroTime
    /\ currentUsage = 0
    /\ currentOffset = 0
    /\ factoryCalls = 0
    /\ lock = Unlocked
    /\ source = 0
    /\ listener = "none"
    /\ sent = 0
    /\ trips = <<>>
    /\ selects = 0
    /\ selected = NoSelection
    /\ instances = <<>>
    /\ picks = <<>>

\* calculateJitteredBackoff has not been called.
NoCall == <<>>
\* No stock backoffer is used.
InitNoBackoff ==
    /\ ebSeed = Seed
    /\ ebAttempts = <<>>
    /\ ebDelays = <<>>
    /\ jIn = NoCall
    /\ jOut = 0

\* The Hedger is not used.
InitNoHedger ==
    /\ hBackoff = 1
    /\ hpc = "idle"
    /\ hParentCtx = Background
    /\ hDoneCtx = Background
    /\ hAttempts = <<>>
    /\ hTimer = 0
    /\ hRet = NoRet

InitCalls ==
    /\ heap = InitHeap
    /\ pc = [c \in Calls |-> "idle"]
    /\ parentCtx = [c \in Calls |-> Background]
    /\ retriers = [c \in Calls |-> <<>>]
    /\ attempts = [c \in Calls |-> <<>>]
    /\ results = [c \in Calls |-> <<>>]
    /\ timer = [c \in Calls |-> 0]
    /\ ret = [c \in Calls |-> NoRet]

\* One RoundTrip on a Retry decorator of any configuration.
InitRetry ==
    /\ decorator = "Retry"
    /\ InitNoCopier
    /\ InitNoAfter
    /\ InitNoReplay
    /\ InitNoPool
    /\ InitNoChain
    /\ InitNoBackoff
    /\ InitCalls
    /\ InitNoHedger
    /\ cfg \in Configs
    /\ callers = {1}

Init == now = 0 /\ InitRetry

Next ==
    \/ Tick
    \/ \E c \in Calls :
        \/ RoundTripStart(c)
        \/ TransportReturn(c)
        \/ SelectDone(c)
        \/ SelectTimer(c)
        \/ CancelParent(c)

Spec == Init /\ [][Next]_vars

\* Several RoundTrips at once on one Retry decorator with a bounded or an
\* unbounded status-code policy and a zero backoff.  The calls are made at
\* the last instant of the clock: no deadline lies ahead and no time passes.
ConcurrentConfigs ==
    [backoff : {0},
     retryPolicies : {<<NewStatusCodeRetryPolicy>>}
         \cup {<<NewLimitedRetryPolicy(n, <<NewStatusCodeRetryPolicy>>)>> : n \in 0..MaxLimit}]

InitConcurrent ==
    /\ decorator = "Retry"
    /\ InitNoCopier
    /\ InitNoAfter
    /\ InitNoReplay
    /\ InitNoPool
    /\ InitNoChain
    /\ InitNoBackoff
    /\ now = MaxTime
    /\ InitCalls
    /\ InitNoHedger
    /\ cfg \in ConcurrentConfigs
    /\ callers = Calls

\* No caller cancels its request.
NextConcurrent ==
    \E c \in Calls :
        \/ RoundTripStart(c)
        \/ TransportReturn(c)
        \/ SelectTimer(c)

SpecConcurrent == InitConcurrent /\ [][NextConcurrent]_vars

\* ------------------------------------------------------------------- Hedger
\* An attempt is [start, ctx, state, resp, err, order]: its goroutine is in
\* "transport" while c.wrapped.RoundTrip runs (hedgedRoundTrip evaluates
\* <-localResp on entering its select), "sending" once it offers the result on
\* resp, and ends "delivered" or "dropped"; order is its rank of completion.
Attempts == 1..MaxHedges
Started(a) == a <= Len(hAttempts)
Completed == {a \in 1..Len(hAttempts) : hAttempts[a].state # "transport"}
Sending == {a \in 1..Len(hAttempts) : hAttempts[a].state = "sending"}

\* go c.hedgedRoundTrip(doneCtx, requestCtx, request, respChan) at instant t:
\* the attempt's context is a child of requestCtx, itself a child of parentCtx.
hedgedRoundTrip(parent, t) ==
    [start |-> t, ctx |-> WithCancel(WithCancel(parent)), state |-> "transport",
     resp |-> NoResponse, err |-> NoErr, order |-> 0]

\* A Hedger whose RoundTrip waits for the attempt it started first.
CanDeliver_FirstStarted(a) == a = 1 /\ a \in Sending
\* The unbuffered resp channel hands over the result of the goroutine that
\* has waited longest to send.
CanDeliver(a) == a \in Sending /\ \A b \in Sending : hAttempts[a].order <= hAttempts[b].order

\* Hedger.RoundTrip, up to its first select.
HedgerStart ==
    /\ decorator = "Hedger"
    /\ hpc = "idle"
    /\ \E bodyOK \in BOOLEAN, ctx \in CallerContexts :
        /\ hParentCtx' = ctx
        /\ IF ~bodyOK
           THEN /\ hRet' = [via |-> "copier", resp |-> NoResponse, err |-> BodyErr]
                /\ hpc' = "returned"
                /\ UNCHANGED <<hDoneCtx, hAttempts, hTimer>>
           ELSE /\ hDoneCtx' = WithCancel(ctx)
                /\ hAttempts' = <<hedgedRoundTrip(ctx, now)>>
                /\ hTimer' = now + hBackoff
                /\ hpc' = "select"
                /\ UNCHANGED hRet
    /\ UNCHANGED <<now, hBackoff>>
    /\ UNCHANGED notHedger

\* select: case <-time.After(backoff): one more attempt, and a new timer.
HedgerTimer ==
    /\ hpc = "select"
    /\ now >= hTimer
    /\ Len(hAttempts) < MaxHedges
    /\ hAttempts' = Append(hAttempts, hedgedRoundTrip(hParentCtx, now))
    /\ hTimer' = now + hBackoff
    /\ UNCHANGED <<now, hBackoff, hpc, hParentCtx, hDoneCtx, hRet>>
    /\ UNCHANGED notHedger

\* A Hedger that, its outer token done, hands over a result that is waiting.
HedgerSelectDone_PreferResult ==
    /\ hpc = "select"
    /\ hParentCtx.err # NoErr
    /\ hRet' = IF Sending = {}
               THEN [via |-> "parent", resp |-> NoResponse, err |-> hParentCtx.err]
               ELSE LET a == CHOOSE x \in Sending : TRUE
                    IN [via |-> "attempt", resp |-> hAttempts[a].resp, err |-> hAttempts[a].err]
    /\ hpc' = "returned"
    /\ hDoneCtx' = CancelCtx(hDoneCtx, Canceled)
    /\ UNCHANGED <<now, hBackoff, hParentCtx, hAttempts, hTimer>>
    /\ UNCHANGED notHedger

\* select: case <-parentCtx.Done(); the deferred done() runs.
HedgerSelectDone ==
    /\ hpc = "select"
    /\ hParentCtx.err # NoErr
    /\ hRet' = [via |-> "parent", resp |-> NoResponse, err |-> hParentCtx.err]
    /\ hpc' = "returned"
    /\ hDoneCtx' = CancelCtx(hDoneCtx, Canceled)
    /\ UNCHANGED <<now, hBackoff, hParentCtx, hAttempts, hTimer>>
    /\ UNCHANGED notHedger

\* The wrapped transport returns for attempt a; its goroutine receives the
\* result from localResp and offers it on resp.
AttemptComplete(a) ==
    /\ Started(a)
    /\ hAttempts[a].state = "transport"
    /\ \E o \in Outcomes(hAttempts[a].ctx) :
        hAttempts' = [hAttempts EXCEPT ![a] =
            [@ EXCEPT !.state = "sending", !.resp = o.resp, !.err = o.err,
                      !.order = Cardinality(Completed) + 1]]
    /\ UNCHANGED <<now, hBackoff, hpc, hParentCtx, hDoneCtx, hTimer, hRet>>
    /\ UNCHANGED notHedger

\* A Hedger whose completion cancels the context of the attempt that won.
AttemptDeliver_CancelWinner(a) ==
    /\ hpc = "select"
    /\ hParentCtx.err = NoErr
    /\ CanDeliver(a)
    /\ hAttempts' = [hAttempts EXCEPT ![a] =
           [@ EXCEPT !.state = "delivered", !.ctx = CancelCtx(@, Canceled)]]
    /\ hRet' = [via |-> "attempt", resp |-> hAttempts[a].resp, err |-> hAttempts[a].err]
    /\ hpc' = "returned"
    /\ hDoneCtx' = CancelCtx(hDoneCtx, Canceled)
    /\ UNCHANGED <<now, hBackoff, hParentCtx, hTimer>>
    /\ UNCHANGED notHedger

\* select: case resp := <-respChan: RoundTrip returns the result of attempt
\* a; the deferred done() runs.
AttemptDeliver(a) ==
    /\ hpc = "select"
    /\ hParentCtx.err = NoErr
    /\ CanDeliver(a)
    /\ hAttempts' = [hAttempts EXCEPT ![a].state = "delivered"]
    /\ hRet' = [via |-> "attempt", resp |-> hAttempts[a].resp, err |-> hAttempts[a].err]
    /\ hpc' = "returned"
    /\ hDoneCtx' = CancelCtx(hDoneCtx, Canceled)
    /\ UNCHANGED <<now, hBackoff, hParentCtx, hTimer>>
    /\ UNCHANGED notHedger

\* hedgedRoundTrip's select: case <-doneCtx.Done(): cancel().
AttemptDrop(a) ==
    /\ a \in Sending
    /\ hDoneCtx.err # NoErr
    /\ hAttempts' = [hAttempts EXCEPT ![a] =
           [@ EXCEPT !.state = "dropped", !.ctx = CancelCtx(@, Canceled)]]
    /\ UNCHANGED <<now, hBackoff, hpc, hParentCtx, hDoneCtx, hTimer, hRet>>
    /\ UNCHANGED notHedger

\* The caller cancels the context of its request.
HedgerCancelParent ==
    /\ hpc \in {"select", "returned"}
    /\ Len(hAttempts) >= 1
    /\ hParentCtx.err = NoErr
    /\ hParentCtx' = CancelCtx(hParentCtx, Canceled)
    /\ hDoneCtx' = CancelCtx(hDoneCtx, Canceled)
    /\ hAttempts' = [a \in 1..Len(hAttempts) |->
           [hAttempts[a] EXCEPT !.ctx = CancelCtx(@, Canceled)]]
    /\ UNCHANGED <<now, hBackoff, hpc, hTimer, hRet>>
    /\ UNCHANGED notHedger

\* A select of the Hedger with a ready case does not wait.
HedgerReady ==
    \/ /\ hpc = "select"
       /\ \/ hParentCtx.err # NoErr
          \/ now >= hTimer /\ Len(hAttempts) < MaxHedges
          \/ \E a \in Sending : hParentCtx.err = NoErr
    \/ Sending # {} /\ hDoneCtx.err # NoErr

\* Time passes while the Hedger or one of its attempts runs.
HedgerTick ==
    /\ now < MaxTime
    /\ hpc = "select" \/ \E a \in 1..Len(hAttempts) : hAttempts[a].state = "transport"
    /\ ~HedgerReady
    /\ now' = now + 1
    /\ hParentCtx' = Expire(hParentCtx, now + 1)
    /\ hDoneCtx' = Expire(hDoneCtx, now + 1)
    /\ hAttempts' = [a \in 1..Len(hAttempts) |->
           [hAttempts[a] EXCEPT !.ctx = Expire(@, now + 1)]]
    /\ UNCHANGED <<hBackoff, hpc, hTimer, hRet>>
    /\ UNCHANGED notHedger

\* The Retry decorator is not used.
InitNoRetry ==
    /\ InitCalls
    /\ cfg = [backoff |-> 0, retryPolicies |-> <<NewStatusCodeRetryPolicy>>]
    /\ callers = {}

\* One RoundTrip on a Hedger with a fixed backoff of at least one instant.
InitHedgerCall ==
    /\ decorator = "Hedger"
    /\ InitNoCopier
    /\ InitNoAfter
    /\ InitNoReplay
    /\ InitNoPool
    /\ InitNoChain
    /\ InitNoBackoff
    /\ InitNoRetry
    /\ hBackoff \in 1..MaxInterval
    /\ hpc = "idle"
    /\ hParentCtx = Background
    /\ hDoneCtx = Background
    /\ hAttempts = <<>>
    /\ hTimer = 0
    /\ hRet = NoRet

InitHedger == now = 0 /\ InitHedgerCall

NextHedger ==
    \/ HedgerTick
    \/ HedgerStart
    \/ HedgerTimer
    \/ HedgerSelectDone
    \/ HedgerCancelParent
    \/ \E a \in Attempts :
        \/ AttemptComplete(a)
        \/ AttemptDeliver(a)
        \/ AttemptDrop(a)

SpecHedger == InitHedger /\ [][NextHedger]_vars

\* The goroutines of the Hedger are scheduled: a select with a ready case is
\* taken, time passes, and the wrapped transport returns once the context of
\* its attempt is done. Nothing else is promised: the caller need not cancel,
\* and a transport call whose context stays live need not return.
FairHedger ==
    /\ WF_vars(HedgerTick)
    /\ WF_vars(HedgerSelectDone)
    /\ \A a \in Attempts :
        /\ WF_vars(AttemptDeliver(a))
        /\ WF_vars(AttemptDrop(a))
        /\ WF_vars(AttemptComplete(a) /\ hAttempts[a].ctx.err # NoErr)

SpecHedgerFair == SpecHedger /\ FairHedger

\* ------------------------------------------------- requests of the attempts
\* requestCopier.Copy: *newRequest = *r.original copies the fields of the
\* request, the reference to its Header map among them; only Body is
\* replaced, by a reader over the buffered bytes.
Copy(orig, n) == [orig EXCEPT !.body = n]
\* Request.WithContext: a shallow copy with the context changed.
WithContext(r, ctx) == [r EXCEPT !.ctx = ctx]
\* The requests that hold the Header map at address m.
Holders(m) == {a \in 1..Len(requests) : requests[a].header = m}
\* The attempts in the middle of a write to the map of attempt a's request.
Racing(a) ==
    {b \in 1..Len(requests) :
        b # a /\ writing[b] # NoWrite /\ requests[b].header = requests[a].header}

\* request = copier.Copy(); go c.hedgedRoundTrip(...), which calls the
\* wrapped transport with r.WithContext(ctx).
HedgeCopy ==
    /\ decorator = "Hedger"
    /\ ~crashed
    /\ Len(requests) < MaxHedges
    /\ requests' = Append(requests,
           WithContext(Copy(original, Len(requests) + 1), Len(requests) + 1))
    /\ writing' = Append(writing, NoWrite)
    /\ written' = Append(written, 0)
    /\ UNCHANGED <<original, headerMaps, crashed>>
    /\ UNCHANGED notCopier

\* The transport of attempt a enters r.Header.Set(k, v). A write to a map
\* while another goroutine writes to it is a data race: the runtime may stop
\* the program ("concurrent map writes") or let both writes go on.
HeaderSetBegin(a, k, v) ==
    /\ ~crashed
    /\ a <= Len(requests)
    /\ writing[a] = NoWrite
    /\ written[a] < MaxWrites
    /\ writing' = [writing EXCEPT ![a] = <<k, v>>]
    /\ IF Racing(a) # {} THEN crashed' \in BOOLEAN ELSE crashed' = crashed
    /\ UNCHANGED <<original, headerMaps, requests, written>>
    /\ UNCHANGED notCopier

\* r.Header.Set(k, v) of attempt a returns: the map its request refers to
\* holds v under k.
HeaderSetEnd(a) ==
    /\ ~crashed
    /\ a <= Len(requests)
    /\ writing[a] # NoWrite
    /\ headerMaps' = [headerMaps EXCEPT ![requests[a].header][writing[a][1]] = writing[a][2]]
    /\ writing' = [writing EXCEPT ![a] = NoWrite]
    /\ written' = [written EXCEPT ![a] = @ + 1]
    /\ UNCHANGED <<original, requests, crashed>>
    /\ UNCHANGED notCopier

\* The attempts of one Hedger.RoundTrip, each transport writing headers.
InitHeaders ==
    /\ now = 0
    /\ decorator = "Hedger"
    /\ InitNoRetry
    /\ InitNoHedger
    /\ InitNoAfter
    /\ InitNoReplay
    /\ InitNoPool
    /\ InitNoChain
    /\ InitNoBackoff
    /\ InitCopier

NextHeaders ==
    \/ HedgeCopy
    \/ \E a \in Attempts :
        \/ \E k \in HeaderKeys, v \in HeaderValues : HeaderSetBegin(a, k, v)
        \/ HeaderSetEnd(a)

SpecHeaders == InitHeaders /\ [][NextHeaders]_vars

\* --------------------------------------------------------------- RetryAfter
\* The values of the Retry-After header the transport may send, as strings
\* of characters.
RetryAfterStrings ==
    {<<"0">>, <<"5">>, <<"1", "0">>, <<"+", "5">>, <<"-", "5">>, <<"x">>, <<"5", "x">>}
Digits == <<"0", "1", "2", "3", "4", "5", "6", "7", "8", "9">>
IsDigit(ch) == \E d \in 1..10 : Digits[d] = ch
DigitValue(ch) == (CHOOSE d \in 1..10 : Digits[d] = ch) - 1
RECURSIVE DecimalValue(_, _)
DecimalValue(str, acc) ==
    IF str = <<>> THEN acc ELSE DecimalValue(Tail(str), 10 * acc + DigitValue(Head(str)))
\* strconv.Atoi: an optional sign, then one decimal digit or more.
Atoi(str) ==
    LET signed == str # <<>> /\ Head(str) \in {"+", "-"}
        digits == IF signed THEN Tail(str) ELSE str
    IN IF digits = <<>> \/ \E i \in 1..Len(digits) : ~IsDigit(digits[i])
       THEN [ok |-> FALSE, val |-> 0]
       ELSE [ok |-> TRUE,
             val |-> IF str[1] = "-" THEN 0 - DecimalValue(digits, 0) ELSE DecimalValue(digits, 0)]

\* The backoffer of NewExponentialBackoffPolicy(Seed): its n-th call, counted
\* from 0, returns Seed doubled n times; each RoundTrip has its own.
\* A backoffer whose delay grows by its seed with each call.
ExponentialDelay_Linear(seed, n) == seed * (n + 1)
\* The delay a backoffer of NewExponentialBackoffPolicy(seed) returns to the
\* call that n calls came before.
RECURSIVE ExponentialDelay(_, _)
ExponentialDelay(seed, n) == IF n = 0 THEN seed ELSE 2 * ExponentialDelay(seed, n - 1)
ExponentialBackoff(n) == ExponentialDelay(Seed, n)

\* A RetryAfter that sends again after any response other than 200.
IsRetryable_Not200(o) == o.err = NoErr /\ o.resp # StatusOK
\* The loop goes on only after a response, and only if its status is 429.
IsRetryable(o) == o.err = NoErr /\ o.resp = StatusTooManyRequests

\* A RetryAfter that reads a header it cannot parse as no delay.
ParseRetryAfter_Lenient(str) == [ok |-> TRUE, val |-> Atoi(str).val]
\* retryAfterInt, err = strconv.Atoi(retryAfterString)
ParseRetryAfter(str) == Atoi(str)

\* A RetryAfter that does not wait for the delay of the header.
HeaderDelay_None(n) == 0
\* retryAfter = time.Duration(retryAfterInt) * time.Millisecond
HeaderDelay(n) == n * Millisecond

\* Whether the decorator has a backoffPolicy for a 429 response without the
\* header; the RetryAfter without the field breaks out of its loop.
UsesBackoff(policy) == policy = "exponential"

\* The body of the loop after the transport call: whether the loop goes on,
\* and the retryAfter and the backoffer's count it goes on with.
AfterResponse(o, policy, backoffs) ==
    IF ~IsRetryable(o)
    THEN [again |-> FALSE, retryAfter |-> 0, backoffs |-> backoffs]
    ELSE IF o.header = NoHeader
    THEN IF UsesBackoff(policy)
         THEN [again |-> TRUE, retryAfter |-> ExponentialBackoff(backoffs), backoffs |-> backoffs + 1]
         ELSE [again |-> FALSE, retryAfter |-> 0, backoffs |-> backoffs]
    ELSE IF ~ParseRetryAfter(o.header).ok
    THEN [again |-> FALSE, retryAfter |-> 0, backoffs |-> backoffs]
    ELSE [again |-> TRUE, retryAfter |-> HeaderDelay(ParseRetryAfter(o.header).val),
          backoffs |-> backoffs]

\* What the wrapped transport may return to RetryAfter.
AfterOutcomes(ctx) ==
    {[resp |-> StatusOK, header |-> NoHeader, err |-> NoErr],
     [resp |-> StatusInternalServerError, header |-> NoHeader, err |-> NoErr],
     [resp |-> NoResponse, header |-> NoHeader, err |-> TransportErr]}
    \cup {[resp |-> StatusTooManyRequests, header |-> str, err |-> NoErr] :
             str \in RetryAfterStrings \cup {NoHeader}}
    \cup (IF ctx.err # NoErr THEN {[resp |-> NoResponse, header |-> NoHeader, err |-> ctx.err]} ELSE {})

\* The callers' contexts: with no deadline, or with one ahead.
AfterDeadlines == {1, 25, 50}
AfterContexts ==
    {Background} \cup {[hasDeadline |-> TRUE, deadline |-> now + d, err |-> NoErr] : d \in AfterDeadlines}

\* cancel() of the latest requestCtx.
CancelLast(as) ==
    [i \in 1..Len(as) |->
        IF as[i].copy = as[Len(as)].copy
        THEN [as[i] EXCEPT !.ctx = CancelCtx(@, Canceled)]
        ELSE as[i]]

\* RetryAfter.RoundTrip, up to the first call of the wrapped transport.
RetryAfterStart ==
    /\ decorator = "RetryAfter"
    /\ apc = "idle"
    /\ \E bodyOK \in BOOLEAN, ctx \in AfterContexts :
        /\ aParentCtx' = ctx
        /\ IF ~bodyOK
           THEN /\ aRet' = [via |-> "copier", resp |-> NoResponse, header |-> NoHeader, err |-> BodyErr]
                /\ apc' = "returned"
                /\ UNCHANGED aAttempts
           ELSE /\ aAttempts' = <<[start |-> now, ctx |-> WithCancel(ctx), copy |-> 1]>>
                /\ apc' = "inflight"
                /\ UNCHANGED aRet
    /\ UNCHANGED <<now, aBackoffPolicy, aRetryAfter, aBackoffs, aResults, aTimer>>
    /\ UNCHANGED notAfter

\* The wrapped transport returns; the rest of the body of the loop, and,
\* when the loop goes on with a retryAfter that is not positive, the next
\* transport call, made at once with the same req.
RetryAfterReturn ==
    /\ apc = "inflight"
    /\ \E o \in AfterOutcomes(aAttempts[Len(aAttempts)].ctx) :
        LET d == AfterResponse(o, aBackoffPolicy, aBackoffs)
            last == aAttempts[Len(aAttempts)]
        IN /\ d.again => Len(aAttempts) < MaxAttempts
           /\ aResults' = Append(aResults, [resp |-> o.resp, header |-> o.header, err |-> o.err, at |-> now])
           /\ aBackoffs' = d.backoffs
           /\ IF ~d.again
              THEN /\ apc' = "returned"
                   /\ aRet' = [via |-> "attempt", resp |-> o.resp, header |-> o.header, err |-> o.err]
                   /\ aAttempts' = IF o.err # NoErr THEN CancelLast(aAttempts) ELSE aAttempts
                   /\ UNCHANGED <<aRetryAfter, aTimer>>
              ELSE /\ aRetryAfter' = d.retryAfter
                   /\ UNCHANGED aRet
                   /\ IF d.retryAfter > 0
                      THEN /\ apc' = "select"
                           /\ aTimer' = now + d.retryAfter
                           /\ UNCHANGED aAttempts
                      ELSE /\ apc' = "inflight"
                           /\ aAttempts' = Append(aAttempts, [last EXCEPT !.start = now])
                           /\ UNCHANGED aTimer
    /\ UNCHANGED <<now, aBackoffPolicy, aParentCtx>>
    /\ UNCHANGED notAfter

\* select: case <-parentCtx.Done(): cancel(); return nil, parentCtx.Err()
RetryAfterSelectDone ==
    /\ apc = "select"
    /\ aParentCtx.err # NoErr
    /\ aRet' = [via |-> "parent", resp |-> NoResponse, header |-> NoHeader, err |-> aParentCtx.err]
    /\ apc' = "returned"
    /\ aAttempts' = CancelLast(aAttempts)
    /\ UNCHANGED <<now, aBackoffPolicy, aParentCtx, aRetryAfter, aBackoffs, aResults, aTimer>>
    /\ UNCHANGED notAfter

\* select: case <-time.After(retryAfter): a new context and a new copy, and
\* the next transport call. The RetryAfter with a backoffPolicy cancels the
\* previous context first.
RetryAfterSelectTimer ==
    /\ apc = "select"
    /\ now >= aTimer
    /\ aAttempts' = Append(IF aBackoffPolicy = "exponential" THEN CancelLast(aAttempts) ELSE aAttempts,
                           [start |-> now, ctx |-> WithCancel(aParentCtx),
                            copy |-> aAttempts[Len(aAttempts)].copy + 1])
    /\ apc' = "inflight"
    /\ UNCHANGED <<now, aBackoffPolicy, aParentCtx, aRetryAfter, aBackoffs, aResults, aTimer, aRet>>
    /\ UNCHANGED notAfter

\* The caller cancels the context of its request.
RetryAfterCancelParent ==
    /\ apc \in {"inflight", "select"}
    /\ aParentCtx.err = NoErr
    /\ aParentCtx' = CancelCtx(aParentCtx, Canceled)
    /\ aAttempts' = [i \in 1..Len(aAttempts) |-> [aAttempts[i] EXCEPT !.ctx = CancelCtx(@, Canceled)]]
    /\ UNCHANGED <<now, aBackoffPolicy, apc, aRetryAfter, aBackoffs, aResults, aTimer, aRet>>
    /\ UNCHANGED notAfter

\* The select of RetryAfter has a ready case.
AfterReady == apc = "select" /\ (aParentCtx.err # NoErr \/ now >= aTimer)

\* The next instant at which something happens: while RetryAfter waits in
\* its select, the earlier of its timer and the caller's deadline; during a
\* transport call, the next millisecond.
AfterNextInstant ==
    IF apc = "select"
    THEN IF aParentCtx.hasDeadline /\ aParentCtx.err = NoErr /\ aParentCtx.deadline < aTimer
         THEN aParentCtx.deadline
         ELSE aTimer
    ELSE now + 1

\* Time passes while RetryAfter waits or its transport call runs.
RetryAfterTick ==
    /\ apc \in {"inflight", "select"}
    /\ ~AfterReady
    /\ apc = "inflight" => now < aAttempts[Len(aAttempts)].start + MaxLatency
    /\ AfterNextInstant <= MaxWait
    /\ now' = AfterNextInstant
    /\ aParentCtx' = Expire(aParentCtx, AfterNextInstant)
    /\ aAttempts' = [i \in 1..Len(aAttempts) |-> [aAttempts[i] EXCEPT !.ctx = Expire(@, AfterNextInstant)]]
    /\ UNCHANGED <<aBackoffPolicy, apc, aRetryAfter, aBackoffs, aResults, aTimer, aRet>>
    /\ UNCHANGED notAfter

\* One RoundTrip on a RetryAfter decorator, with or without a backoffPolicy.
InitRetryAfter ==
    /\ decorator = "RetryAfter"
    /\ InitNoRetry
    /\ InitNoHedger
    /\ InitNoCopier
    /\ InitNoReplay
    /\ InitNoPool
    /\ InitNoChain
    /\ InitNoBackoff
    /\ aBackoffPolicy \in {"exponential", "none"}
    /\ InitAfterCall

InitAfter == now = 0 /\ InitRetryAfter

NextAfter ==
    \/ RetryAfterTick
    \/ RetryAfterStart
    \/ RetryAfterReturn
    \/ RetryAfterSelectDone
    \/ RetryAfterSelectTimer
    \/ RetryAfterCancelParent

SpecAfter == InitAfter /\ [][NextAfter]_vars

\* ------------------------------------------------------------ requestCopier
Bytes == {"a", "b"}
\* The bodies a request may carry: none, empty, or up to MaxLen bytes.
BodyContents == UNION {[1..n -> Bytes] : n \in 0..MaxLen}
Requests ==
    {[hasBody |-> FALSE, bytes |-> <<>>]} \cup {[hasBody |-> TRUE, bytes |-> bs] : bs \in BodyContents}

\* Reader.Read on the bytes bs at offset off, into a slice of n bytes.
ReadAt(bs, off, n) ==
    LET m == IF Len(bs) - off < n THEN Len(bs) - off ELSE n
    IN [data |-> SubSeq(bs, off + 1, off + m), off |-> off + m]
\* ioutil.ReadAll: reads, one byte at a time here, until the reader is empty.
RECURSIVE ReadAll(_, _, _)
ReadAll(bs, off, acc) ==
    IF off >= Len(bs) THEN acc
    ELSE LET r == ReadAt(bs, off, 1) IN ReadAll(bs, r.off, acc \o r.data)
\* newRequestCopier: the body drained if the request has one, else nil.
newRequestCopier(r) == IF r.hasBody THEN ReadAll(r.bytes, 0, <<>>) ELSE Nil

\* A copier that hands the reader it made first to every copy.
NewBuffer_Reuse(bufs) == IF bufs = <<>> THEN <<[off |-> 0]>> ELSE bufs
\* bytes.NewBuffer(r.body): a new reader at the start of the bytes.
NewBuffer(bufs) == Append(bufs, [off |-> 0])

\* requestCopier.Copy: Body is nil, or a reader over the drained bytes.
CopyRequest ==
    /\ Len(rcCopies) < MaxBuffers
    /\ IF rcBody = Nil
       THEN /\ rcCopies' = Append(rcCopies, [body |-> 0])
            /\ UNCHANGED <<rcBuffers, rcOutputs>>
       ELSE /\ Len(rcBuffers) < MaxBuffers
            /\ rcBuffers' = NewBuffer(rcBuffers)
            /\ rcCopies' = Append(rcCopies, [body |-> Len(rcBuffers')])
            /\ rcOutputs' = [b \in 1..Len(rcBuffers') |-> IF b <= Len(rcOutputs) THEN rcOutputs[b] ELSE <<>>]
    /\ UNCHANGED <<rcOriginal, rcBody>>
    /\ UNCHANGED notReplay

\* GetBody of a copy that has a body: one more reader over the drained bytes.
GetBody(i) ==
    /\ i <= Len(rcCopies)
    /\ rcCopies[i].body # 0
    /\ Len(rcBuffers) < MaxBuffers
    /\ rcBuffers' = Append(rcBuffers, [off |-> 0])
    /\ rcOutputs' = Append(rcOutputs, <<>>)
    /\ UNCHANGED <<rcOriginal, rcBody, rcCopies>>
    /\ UNCHANGED notReplay

\* A transport reads up to n bytes from the reader at address b.
ReadBody(b, n) ==
    /\ b <= Len(rcBuffers)
    /\ rcBuffers[b].off < Len(rcBody)
    /\ LET r == ReadAt(rcBody, rcBuffers[b].off, n)
       IN /\ rcBuffers' = [rcBuffers EXCEPT ![b].off = r.off]
          /\ rcOutputs' = [rcOutputs EXCEPT ![b] = @ \o r.data]
    /\ UNCHANGED <<rcOriginal, rcBody, rcCopies>>
    /\ UNCHANGED notReplay

\* A requestCopier made for any request, before its first Copy.
InitReplay ==
    /\ now = 0
    /\ decorator = "Retry"
    /\ InitNoRetry
    /\ InitNoHedger
    /\ InitNoCopier
    /\ InitNoAfter
    /\ InitNoBackoff
    /\ InitNoPool
    /\ InitNoChain
    /\ rcOriginal \in Requests
    /\ rcBody = newRequestCopier(rcOriginal)
    /\ rcBuffers = <<>>
    /\ rcCopies = <<>>
    /\ rcOutputs = <<>>

NextReplay ==
    \/ CopyRequest
    \/ \E i \in 1..MaxBuffers : GetBody(i)
    \/ \E b \in 1..MaxBuffers, n \in 1..MaxLen : ReadBody(b, n)

SpecReplay == InitReplay /\ [][NextReplay]_vars

\* ---------------------------------------------------------- stock backoffers
\* The seeds given to NewExponentialBackoffPolicy.
Seeds == {1, 3, Seed}

\* The BackoffPolicy is called: a backoffer that no call has been made to.
ExponentialPolicyCall ==
    /\ Len(ebAttempts) < MaxBackoffers
    /\ ebAttempts' = Append(ebAttempts, 0)
    /\ ebDelays' = Append(ebDelays, <<>>)
    /\ UNCHANGED <<ebSeed, jIn, jOut>>
    /\ UNCHANGED notBackoff

\* Backoff of the backoffer at address b.
ExponentialBackoffCall(b) ==
    /\ b <= Len(ebAttempts)
    /\ ebAttempts[b] < MaxCalls
    /\ ebDelays' = [ebDelays EXCEPT ![b] = Append(@, ExponentialDelay(ebSeed, ebAttempts[b]))]
    /\ ebAttempts' = [ebAttempts EXCEPT ![b] = @ + 1]
    /\ UNCHANGED <<ebSeed, jIn, jOut>>
    /\ UNCHANGED notBackoff

InitExponential ==
    /\ now = 0
    /\ decorator = "Retry"
    /\ InitNoRetry
    /\ InitNoHedger
    /\ InitNoCopier
    /\ InitNoAfter
    /\ InitNoReplay
    /\ InitNoPool
    /\ InitNoChain
    /\ ebSeed \in Seeds
    /\ ebAttempts = <<>>
    /\ ebDelays = <<>>
    /\ jIn = NoCall
    /\ jOut = 0

NextExponential ==
    \/ ExponentialPolicyCall
    \/ \E b \in 1..MaxBackoffers : ExponentialBackoffCall(b)

SpecExponential == InitExponential /\ [][NextExponential]_vars

\* A float64 in [0, 1] is k / Grain; time.Duration(f) drops the fraction.
Fractions == 0..Grain
\* A jitter taken from the whole duration, not from its window.
calculateJitteredBackoff_Unscaled(base, percentage, draw1, draw2) ==
    LET jitter == (draw1 * base) \div Grain
    IN IF 2 * draw2 > Grain THEN base - jitter ELSE base + jitter
\* calculateJitteredBackoff with random() returning draw1, then draw2.
calculateJitteredBackoff(base, percentage, draw1, draw2) ==
    LET jitterWindow == (percentage * base) \div Grain
        jitter == (draw1 * jitterWindow) \div Grain
    IN IF 2 * draw2 > Grain THEN base - jitter ELSE base + jitter

\* One call of calculateJitteredBackoff.
JitterCall ==
    /\ jIn = NoCall
    /\ \E base \in 0..MaxBase, percentage \in Fractions, draw1 \in Fractions, draw2 \in Fractions :
        /\ jIn' = [original |-> base, percentage |-> percentage, draw1 |-> draw1, draw2 |-> draw2]
        /\ jOut' = calculateJitteredBackoff(base, percentage, draw1, draw2)
    /\ UNCHANGED <<ebSeed, ebAttempts, ebDelays>>
    /\ UNCHANGED notBackoff

\* The caller is done with the value.
JitterReset ==
    /\ jIn # NoCall
    /\ jIn' = NoCall
    /\ jOut' = 0
    /\ UNCHANGED <<ebSeed, ebAttempts, ebDelays>>
    /\ UNCHANGED notBackoff

InitJitter ==
    /\ now = 0
    /\ decorator = "Retry"
    /\ InitNoRetry
    /\ InitNoHedger
    /\ InitNoCopier
    /\ InitNoAfter
    /\ InitNoReplay
    /\ InitNoPool
    /\ InitNoChain
    /\ InitNoBackoff

NextJitter == JitterCall \/ JitterReset

SpecJitter == InitJitter /\ [][NextJitter]_vars

\* ------------------------------------------------------ Recycler and Rotator
\* The goroutines calling RoundTrip.
Goroutines == 1..NumCalls

\* The options a Recycler is built with.
RecyclerOptions ==
    [ttl : {0, 2}, ttlJitter : {0, 2}, maxUsage : {0, 1, 2}, signals : {0, 1},
     numberOfInstances : {0}]

\* The options a Rotator is built with.
RotatorOptions ==
    [ttl : {0}, ttlJitter : {0}, maxUsage : {0}, signals : {0},
     numberOfInstances : {-1, 0, 1, 2, 3}]

\* A NewRotator without its defensive minimum.
NumberOfInstances_AsConfigured(n) == n
\* Rotator.numberOfInstances after NewRotator.
NumberOfInstances(n) == IF n < 1 THEN 1 ELSE n

\* Rotator.instances after NewRotator(factory, RotatorOptionInstances(c)):
\* instance k is the one the k-th factory call returned.
NewInstances(c) ==
    LET made == [x \in 1..(IF c > 0 THEN c ELSE 0) |-> x]
    IN IF Len(made) < 1 THEN Append(made, Len(made) + 1) ELSE made

\* A Rotator that skips every other instance.
NextOffset_Skip(offset, n) == (offset + 2) % n
\* c.currentOffset = (c.currentOffset + 1) % c.numberOfInstances
NextOffset(offset, n) == (offset + 1) % n

\* A mutex that does not exclude.
LockFree_Always(l) == TRUE
\* c.lock.Lock() returns once no goroutine holds the mutex.
LockFree(l) == l = Unlocked

\* A mutex that stays with the goroutine after getTransport.
Unlock_AfterSend(g) == g
\* The mutex after goroutine g unlocked it.
Unlock(g) == Unlocked

\* A ceiling that counts the request reaching it.
OverUsage_AtCeiling(usage, max) == usage >= max
\* c.currentUsage > c.maxUsage
OverUsage(usage, max) == usage > max

\* A Recycler that takes the zero nextTTL for no deadline at all.
Expired_SetOnly(t, deadline) == deadline # ZeroTime /\ t > deadline
\* A Recycler that never looks at the clock.
Expired_Never(t, deadline) == FALSE
\* time.Now().After(c.nextTTL)
Expired(t, deadline) == t > deadline

\* A Recycler that never looks at its signal channel.
SignalReady_Never(l) == FALSE
\* case <-c.signal: the receive is ready when the listener is blocked in
\* its send on the unbuffered channel.
SignalReady(l) == l = "parked"

\* A getTransport that looks at its signal channel first.
Trigger_SignalFirst(options, usage, t, deadline, l) ==
    IF SignalReady(l) THEN "signal"
    ELSE IF options.maxUsage > 0 /\ OverUsage(usage, options.maxUsage) THEN "usage"
    ELSE IF options.ttl > 0 /\ Expired(t, deadline) THEN "ttl"
    ELSE "none"
\* The branch of getTransport that is taken, for the usage counter after
\* its increment, the clock, c.nextTTL and the state of the listener.
Trigger(options, usage, t, deadline, l) ==
    IF options.maxUsage > 0 /\ OverUsage(usage, options.maxUsage) THEN "usage"
    ELSE IF options.ttl > 0 /\ Expired(t, deadline) THEN "ttl"
    ELSE IF SignalReady(l) THEN "signal"
    ELSE "none"

\* The renderedJitter of resetTransport for two values of rand.Float64().
RenderedJitter(jitter, draw1, draw2) ==
    LET rendered == (draw1 * jitter) \div Grain
    IN IF draw2 * 100 > 50 * Grain THEN 0 - rendered ELSE rendered

\* What rand.Float64() returns: a float64 in [0, 1).
Draws == 0..(Grain - 1)

\* external code sends on the signal channel
SourceSend ==
    /\ decorator = "Recycler"
    /\ pool.signals > 0
    /\ source = 0
    /\ sent < MaxSignals
    /\ source' = 1
    /\ sent' = sent + 1
    /\ UNCHANGED <<now, pool, wrapped, nextTTL, currentUsage, currentOffset, factoryCalls,
                   lock, listener, trips, selects, selected, instances, picks>>
    /\ UNCHANGED notPool

\* listenOne: for range s
ListenerReceive ==
    /\ listener = "range"
    /\ source > 0
    /\ source' = source - 1
    /\ listener' = "send"
    /\ UNCHANGED <<now, pool, wrapped, nextTTL, currentUsage, currentOffset, factoryCalls,
                   lock, sent, trips, selects, selected, instances, picks>>
    /\ UNCHANGED notPool

\* listenOne: c.signal <- struct{}{} finds no receiver and blocks
ListenerPark ==
    /\ listener = "send"
    /\ listener' = "parked"
    /\ UNCHANGED <<now, pool, wrapped, nextTTL, currentUsage, currentOffset, factoryCalls,
                   lock, source, sent, trips, selects, selected, instances, picks>>
    /\ UNCHANGED notPool

\* c.lock.Lock() of a new RoundTrip
PoolLock(g) ==
    /\ decorator \in {"Recycler", "Rotator"}
    /\ trips[g].pc = "idle"
    /\ LockFree(lock)
    /\ selects < MaxRequests
    /\ lock' = g
    /\ trips' = [trips EXCEPT ![g].pc = "locked"]
    /\ UNCHANGED <<now, pool, wrapped, nextTTL, currentUsage, currentOffset, factoryCalls,
                   source, listener, sent, selects, selected, instances, picks>>
    /\ UNCHANGED notPool

\* getTransport, c.currentUsage = c.currentUsage + 1: the read
RecyclerLoadUsage(g) ==
    /\ decorator = "Recycler"
    /\ trips[g].pc = "locked"
    /\ pool.maxUsage > 0
    /\ trips' = [trips EXCEPT ![g].pc = "counting", ![g].read = currentUsage]
    /\ UNCHANGED <<now, pool, wrapped, nextTTL, currentUsage, currentOffset, factoryCalls,
                   lock, source, listener, sent, selects, selected, instances, picks>>
    /\ UNCHANGED notPool

\* Recycler.getTransport, from the write of c.currentUsage to the deferred
\* Unlock.
RecyclerGetTransport(g) ==
    /\ decorator = "Recycler"
    /\ \/ trips[g].pc = "counting"
       \/ trips[g].pc = "locked" /\ pool.maxUsage = 0
    /\ LET usage == IF pool.maxUsage > 0 THEN trips[g].read + 1 ELSE currentUsage
           trigger == Trigger(pool, usage, now, nextTTL, listener)
           reset == trigger # "none"
       IN /\ listener' = IF trigger = "signal" THEN "range" ELSE listener
          /\ IF reset
             THEN \* resetTransport
                  /\ wrapped' = factoryCalls + 1
                  /\ factoryCalls' = factoryCalls + 1
                  /\ currentUsage' = 0
                  /\ \E draw1 \in Draws, draw2 \in Draws :
                        nextTTL' = now + pool.ttl + RenderedJitter(pool.ttlJitter, draw1, draw2)
                  /\ picks' = Append(picks, 1)
             ELSE /\ currentUsage' = usage
                  /\ picks' = [picks EXCEPT ![wrapped] = @ + 1]
                  /\ UNCHANGED <<wrapped, factoryCalls, nextTTL>>
          /\ trips' = [trips EXCEPT ![g] = [pc |-> "selected", rt |-> wrapped', on |-> 0, read |-> 0]]
          /\ selects' = selects + 1
          /\ selected' =
                [g |-> g, at |-> now, deadline |-> nextTTL, previous |-> wrapped,
                 listener |-> listener, sent |-> sent,
                 instance |-> wrapped', fresh |-> wrapped' > factoryCalls,
                 usage |-> currentUsage', next |-> nextTTL']
    /\ lock' = Unlock(g)
    /\ UNCHANGED <<now, pool, currentOffset, source, sent, instances>>
    /\ UNCHANGED notPool

\* Rotator.RoundTrip, from after the Lock to the Unlock.
RotatorSelect(g) ==
    /\ decorator = "Rotator"
    /\ trips[g].pc = "locked"
    /\ LET offset == NextOffset(currentOffset, NumberOfInstances(pool.numberOfInstances))
       IN /\ currentOffset' = offset
          /\ trips' = [trips EXCEPT ![g] = [pc |-> "selected", rt |-> instances[offset + 1], on |-> 0, read |-> 0]]
          /\ picks' = [picks EXCEPT ![instances[offset + 1]] = @ + 1]
          /\ selects' = selects + 1
          /\ selected' =
                [g |-> g, at |-> now, deadline |-> nextTTL, previous |-> currentOffset + 1,
                 listener |-> listener, sent |-> sent,
                 instance |-> instances[offset + 1], fresh |-> FALSE,
                 usage |-> currentUsage, next |-> nextTTL]
    /\ lock' = Unlock(g)
    /\ UNCHANGED <<now, pool, wrapped, nextTTL, currentUsage, factoryCalls, source, listener, sent,
                   instances>>
    /\ UNCHANGED notPool

\* rt.RoundTrip(r), or c.instances[offset].RoundTrip(r): the call begins
InstanceCall(g) ==
    /\ trips[g].pc = "selected"
    /\ trips' = [trips EXCEPT ![g].pc = "sending", ![g].on = trips[g].rt]
    /\ UNCHANGED <<now, pool, wrapped, nextTTL, currentUsage, currentOffset, factoryCalls,
                   lock, source, listener, sent, selects, selected, instances, picks>>
    /\ UNCHANGED notPool

\* the transport call returns, if it ever does
InstanceReturn(g) ==
    /\ trips[g].pc = "sending"
    /\ trips' = [trips EXCEPT ![g] = [pc |-> "idle", rt |-> 0, on |-> 0, read |-> 0]]
    /\ UNCHANGED <<now, pool, wrapped, nextTTL, currentUsage, currentOffset, factoryCalls,
                   lock, source, listener, sent, selects, selected, instances, picks>>
    /\ UNCHANGED notPool

\* the clock, which only the Recycler reads
PoolTick ==
    /\ decorator = "Recycler"
    /\ now < MaxTime
    /\ now' = now + 1
    /\ UNCHANGED pvars
    /\ UNCHANGED notPool

\* NewRecycler
InitRecycler ==
    /\ decorator = "Recycler"
    /\ pool \in RecyclerOptions
    /\ wrapped = 1
    /\ factoryCalls = 1
    /\ nextTTL = ZeroTime
    /\ currentUsage = 0
    /\ currentOffset = 0
    /\ listener = IF pool.signals > 0 THEN "range" ELSE "none"
    /\ instances = <<>>
    /\ picks = <<0>>

\* NewRotator
InitRotator ==
    /\ decorator = "Rotator"
    /\ pool \in RotatorOptions
    /\ wrapped = 0
    /\ instances = NewInstances(pool.numberOfInstances)
    /\ factoryCalls = Len(instances)
    /\ picks = [i \in 1..Len(instances) |-> 0]
    /\ nextTTL = ZeroTime
    /\ currentUsage = 0
    /\ currentOffset = 0
    /\ listener = "none"

\* No request has been made on the new decorator.
InitPoolCalls(gs) ==
    /\ InitNoRetry
    /\ InitNoHedger
    /\ InitNoCopier
    /\ InitNoAfter
    /\ InitNoReplay
    /\ InitNoBackoff
    /\ InitNoChain
    /\ lock = Unlocked
    /\ source = 0
    /\ sent = 0
    /\ trips = [g \in gs |-> [pc |-> "idle", rt |-> 0, on |-> 0, read |-> 0]]
    /\ selects = 0
    /\ selected = NoSelection

\* Requests made one after the other on a Recycler of any options.
InitRecyclerCalls ==
    /\ now = 0
    /\ InitRecycler
    /\ InitPoolCalls({1})

NextRecycler ==
    \/ SourceSend
    \/ ListenerReceive
    \/ ListenerPark
    \/ PoolTick
    \/ \E g \in DOMAIN trips : PoolLock(g)
    \/ \E g \in DOMAIN trips : RecyclerLoadUsage(g)
    \/ \E g \in DOMAIN trips : RecyclerGetTransport(g)
    \/ \E g \in DOMAIN trips : InstanceCall(g)
    \/ \E g \in DOMAIN trips : InstanceReturn(g)

SpecRecycler == InitRecyclerCalls /\ [][NextRecycler]_vars

\* Requests made at once on a Rotator or on a Recycler without a TTL.
InitPool ==
    /\ now = MaxTime
    /\ \/ InitRecycler /\ pool.ttl = 0 /\ pool.ttlJitter = 0
       \/ InitRotator
    /\ InitPoolCalls(Goroutines)

NextPool ==
    \/ SourceSend
    \/ ListenerReceive
    \/ ListenerPark
    \/ \E g \in DOMAIN trips : PoolLock(g)
    \/ \E g \in DOMAIN trips : RecyclerLoadUsage(g)
    \/ \E g \in DOMAIN trips : RecyclerGetTransport(g)
    \/ \E g \in DOMAIN trips : RotatorSelect(g)
    \/ \E g \in DOMAIN trips : InstanceCall(g)
    \/ \E g \in DOMAIN trips : InstanceReturn(g)

SpecPool == InitPool /\ [][NextPool]_vars

\* A Recycler under requests that never stop. The run has no last request,
\* so the clock is kept as the time left until c.nextTTL (now stays 0 and
\* nextTTL comes down, ZeroTime standing for every instant already past),
\* the instance in use is named apart from the one it replaced only, and
\* the requests and factory calls are not counted.
\* time passes between two requests
PoolElapse ==
    /\ decorator = "Recycler"
    /\ pool.ttl > 0
    /\ nextTTL > ZeroTime
    /\ nextTTL' = nextTTL - 1
    /\ UNCHANGED <<now, pool, wrapped, currentUsage, currentOffset, factoryCalls,
                   lock, source, listener, sent, trips, selects, selected, instances, picks>>
    /\ UNCHANGED notPool

\* Recycler.getTransport, from the write of c.currentUsage to the deferred
\* Unlock.
SteadyGetTransport(g) ==
    /\ decorator = "Recycler"
    /\ \/ trips[g].pc = "counting"
       \/ trips[g].pc = "locked" /\ pool.maxUsage = 0
    /\ LET usage == IF pool.maxUsage > 0 THEN trips[g].read + 1 ELSE currentUsage
           trigger == Trigger(pool, usage, now, nextTTL, listener)
           reset == trigger # "none"
       IN /\ listener' = IF trigger = "signal" THEN "range" ELSE listener
          /\ IF reset
             THEN \* resetTransport
                  /\ wrapped' = (wrapped % 2) + 1
                  /\ currentUsage' = 0
                  /\ \E draw1 \in Draws, draw2 \in Draws :
                        nextTTL' = now + pool.ttl + RenderedJitter(pool.ttlJitter, draw1, draw2)
             ELSE /\ currentUsage' = usage
                  /\ UNCHANGED <<wrapped, nextTTL>>
          /\ trips' = [trips EXCEPT ![g] = [pc |-> "selected", rt |-> wrapped', on |-> 0, read |-> 0]]
          /\ selected' =
                [g |-> g, at |-> now, deadline |-> nextTTL, previous |-> wrapped,
                 listener |-> listener, sent |-> sent,
                 instance |-> wrapped', fresh |-> reset,
                 usage |-> currentUsage', next |-> nextTTL']
    /\ lock' = Unlock(g)
    /\ UNCHANGED <<now, pool, currentOffset, factoryCalls, source, sent, selects, instances, picks>>
    /\ UNCHANGED notPool

NextSteady ==
    \/ SourceSend
    \/ ListenerReceive
    \/ ListenerPark
    \/ PoolElapse
    \/ \E g \in DOMAIN trips : PoolLock(g)
    \/ \E g \in DOMAIN trips : RecyclerLoadUsage(g)
    \/ \E g \in DOMAIN trips : SteadyGetTransport(g)
    \/ \E g \in DOMAIN trips : InstanceCall(g)
    \/ \E g \in DOMAIN trips : InstanceReturn(g)

\* The listener goroutine is scheduled, and requests keep arriving: the
\* caller makes its next request, and each request gets through the mutex,
\* the selection and the transport.
FairSteady ==
    /\ WF_vars(ListenerReceive)
    /\ WF_vars(ListenerPark)
    /\ WF_vars(\E g \in DOMAIN trips : PoolLock(g))
    /\ WF_vars(\E g \in DOMAIN trips : RecyclerLoadUsage(g))
    /\ WF_vars(\E g \in DOMAIN trips : SteadyGetTransport(g))
    /\ WF_vars(\E g \in DOMAIN trips : InstanceCall(g))
    /\ WF_vars(\E g \in DOMAIN trips : InstanceReturn(g))

SpecSteady == InitRecyclerCalls /\ [][NextSteady]_vars /\ FairSteady

\* ------------------------------------------------------------------- Chain
\* The decorators of the tests: each records its name and calls the
\* transport it wraps.
Annotators == {"one", "two", "three"}

\* Every Chain of at most n decorators.
RECURSIVE Chains(_)
Chains(n) ==
    IF n = 0 THEN {<<>>}
    ELSE Chains(n - 1) \cup
         {Append(c, d) : c \in {c \in Chains(n - 1) : Len(c) = n - 1}, d \in Annotators}

\* c[x](base): the decorator wraps the transport it is given.
Decorate(d, base) == [decorators |-> <<d>> \o base.decorators, base |-> base.base]

\* An Apply that wraps with the first decorator first.
RECURSIVE ApplyForward(_, _, _)
ApplyForward(c, x, base) ==
    IF x > Len(c) THEN base ELSE ApplyForward(c, x + 1, Decorate(c[x], base))
Apply_Forward(c, base) == ApplyForward(c, 1, base)
\* The loop of Chain.Apply, from index x down to the first decorator.
RECURSIVE ApplyFrom(_, _, _)
ApplyFrom(c, x, base) ==
    IF x < 1 THEN base ELSE ApplyFrom(c, x - 1, Decorate(c[x], base))
\* Chain.Apply
Apply(c, base) == ApplyFrom(c, Len(c), base)

\* The base transport that the k-th call of the factory returns; 0 is a
\* base transport given to Apply directly.
Base(k) == [decorators |-> <<>>, base |-> k]

\* chain.Apply(base)
ChainApply ==
    /\ decorator = "Chain"
    /\ Len(built) < MaxTransports
    /\ built' = Append(built, Apply(chain, Base(0)))
    /\ UNCHANGED <<chain, baseCalls, passing, annotations>>
    /\ UNCHANGED notChain

\* a call of the Factory that chain.ApplyFactory(base) returned
ChainApplyFactory ==
    /\ decorator = "Chain"
    /\ Len(built) < MaxTransports
    /\ baseCalls' = baseCalls + 1
    /\ built' = Append(built, Apply(chain, Base(baseCalls + 1)))
    /\ UNCHANGED <<chain, passing, annotations>>
    /\ UNCHANGED notChain

\* RoundTrip on a transport built from the chain
ChainRoundTrip(t) ==
    /\ passing = NoPass
    /\ t <= Len(built)
    /\ passing' = [transport |-> t, depth |-> 0]
    /\ annotations' = <<>>
    /\ UNCHANGED <<chain, built, baseCalls>>
    /\ UNCHANGED notChain

\* the request enters the next decorator, which calls wrapped.RoundTrip
ChainEnter ==
    /\ passing # NoPass
    /\ passing.depth < Len(built[passing.transport].decorators)
    /\ passing' = [passing EXCEPT !.depth = @ + 1]
    /\ annotations' = Append(annotations, built[passing.transport].decorators[passing.depth + 1])
    /\ UNCHANGED <<chain, built, baseCalls>>
    /\ UNCHANGED notChain

\* the request reaches the base transport
ChainBase ==
    /\ passing # NoPass
    /\ passing.depth = Len(built[passing.transport].decorators)
    /\ passing' = [passing EXCEPT !.depth = @ + 1]
    /\ annotations' = Append(annotations, "base")
    /\ UNCHANGED <<chain, built, baseCalls>>
    /\ UNCHANGED notChain

\* the base transport and the decorators return
ChainReturn ==
    /\ passing # NoPass
    /\ passing.depth > Len(built[passing.transport].decorators)
    /\ passing' = NoPass
    /\ UNCHANGED <<chain, built, baseCalls, annotations>>
    /\ UNCHANGED notChain

InitChain ==
    /\ now = 0
    /\ decorator = "Chain"
    /\ InitNoRetry
    /\ InitNoHedger
    /\ InitNoCopier
    /\ InitNoAfter
    /\ InitNoReplay
    /\ InitNoBackoff
    /\ InitNoPool
    /\ chain \in Chains(MaxChain)
    /\ built = <<>>
    /\ baseCalls = 0
    /\ passing = NoPass
    /\ annotations = <<>>

NextChain ==
    \/ ChainApply
    \/ ChainApplyFactory
    \/ \E t \in 1..MaxTransports : ChainRoundTrip(t)
    \/ ChainEnter
    \/ ChainBase
    \/ ChainReturn

SpecChain == InitChain /\ [][NextChain]_vars

\* --------------------------------------------------------- every decorator
\* One RoundTrip on one of the three decorators, called late enough for the
\* clock to stop after the first wait.
InitDecorators ==
    \/ now = MaxTime - 1 /\ InitRetry
    \/ now = MaxTime - 1 /\ InitHedgerCall
    \/ now = MaxWait - Seed /\ InitRetryAfter

NextDecorators == Next \/ NextHedger \/ NextAfter

SpecDecorators == InitDecorators /\ [][NextDecorators]_vars

\* ------------------------------------------------------------------ claims
Min(a, b) == IF a <= b THEN a ELSE b
\* The decorator was built with exactly one policy, of this kind.
SinglePolicy(k) == Len(cfg.retryPolicies) = 1 /\ cfg.retryPolicies[1].kind = k
\* A response with status 500 and a nil error.
Is500(r) == r.resp = StatusInternalServerError /\ r.err = NoErr
\* Call c went past the request copier and invoked the transport.
Invoked(c) == Len(attempts[c]) >= 1
\* The outcomes a transport can return, whatever the context.
AllOutcomes ==
    {[resp |-> s, err |-> NoErr] : s \in StatusCodes}
    \cup {[resp |-> NoResponse, err |-> e] : e \in {TransportErr, Canceled, DeadlineExceeded}}

\* C1: under one NewLimitedRetryPolicy(N, status-code policy), when every
\* attempt returns a response the wrapped policy votes to retry and the outer
\* token never fires, the transport is never invoked more than N+1 times and
\* RoundTrip returns only after exactly N+1 invocations, with the last
\* attempt's response and a nil error.
C1_RetryBound ==
    \A c \in Calls :
        (/\ SinglePolicy("limited")
         /\ cfg.retryPolicies[1].policies = <<NewStatusCodeRetryPolicy>>
         /\ parentCtx[c].err = NoErr
         /\ \A i \in 1..Len(results[c]) : Is500(results[c][i]))
        => /\ Len(attempts[c]) <= cfg.retryPolicies[1].limit + 1
           /\ (pc[c] = "returned" /\ Invoked(c))
                => /\ Len(attempts[c]) = cfg.retryPolicies[1].limit + 1
                   /\ Len(results[c]) = Len(attempts[c])
                   /\ ret[c].resp = StatusInternalServerError
                   /\ ret[c].err = NoErr
C1_Witness ==
    \E c \in Calls :
        /\ SinglePolicy("limited")
        /\ cfg.retryPolicies[1].policies = <<NewStatusCodeRetryPolicy>>
        /\ cfg.retryPolicies[1].limit = 2
        /\ pc[c] = "returned" /\ parentCtx[c].err = NoErr
        /\ Len(attempts[c]) = 3
        /\ \A i \in 1..Len(results[c]) : Is500(results[c][i])

\* C2: under the unbounded status-code retrier for 500, every attempt before
\* the last one returned a 500, and a response with another status ends the
\* call at once: after k 500s and that response the transport was invoked
\* exactly k+1 times and RoundTrip returned that response with a nil error.
C2_StatusCodeRetry ==
    \A c \in Calls :
        cfg.retryPolicies = <<NewStatusCodeRetryPolicy>>
        => LET rs == results[c]
               n == Len(rs)
           IN /\ \A i \in 1..(n - 1) : Is500(rs[i])
              /\ (n >= 1 /\ rs[n].err = NoErr /\ rs[n].resp # StatusInternalServerError)
                    => /\ pc[c] = "returned"
                       /\ Len(attempts[c]) = n
                       /\ ret[c].resp = rs[n].resp
                       /\ ret[c].err = NoErr
C2_Witness ==
    \E c \in Calls :
        /\ cfg.retryPolicies = <<NewStatusCodeRetryPolicy>>
        /\ pc[c] = "returned"
        /\ Len(results[c]) = 3 /\ Len(attempts[c]) = 3
        /\ Is500(results[c][1]) /\ Is500(results[c][2])
        /\ ret[c].resp = StatusOK /\ ret[c].err = NoErr

\* C3: when the outer token is done at the moment Retry decides whether to
\* start another attempt (it is at its select), whatever the backoff, no
\* further attempt is started and RoundTrip returns (nil, the token's error).
C3_OuterCancellationWins ==
    [][\A c \in Calls :
          (pc[c] = "select" /\ parentCtx[c].err # NoErr)
          => /\ Len(attempts'[c]) = Len(attempts[c])
             /\ pc'[c] # "select"
                  => /\ pc'[c] = "returned"
                     /\ ret'[c].resp = NoResponse
                     /\ ret'[c].err = parentCtx[c].err]_vars

\* C4: when the outer deadline passed while the first attempt was in flight,
\* the transport is invoked exactly once and RoundTrip returns the deadline's
\* error, not the attempt's own result.
C4_DeadlineRespect ==
    \A c \in Calls :
        (Len(results[c]) >= 1 /\ results[c][1].parentErr = DeadlineExceeded)
        => /\ Len(attempts[c]) = 1
           /\ pc[c] = "returned"
                => ret[c].resp = NoResponse /\ ret[c].err = DeadlineExceeded

\* C5: when RoundTrip has returned a response with a nil error and the outer
\* token has not fired, the context of the request that produced the
\* response is not cancelled.
C5_ContextKeepAlive ==
    \A c \in Calls :
        (/\ pc[c] = "returned" /\ Invoked(c)
         /\ ret[c].resp # NoResponse /\ ret[c].err = NoErr
         /\ parentCtx[c].err = NoErr)
        => attempts[c][Len(attempts[c])].ctx.err = NoErr

\* C6: once the transport was invoked, the pair RoundTrip returns is the pair
\* of the last attempt made, or (nil, the outer token's error) with the outer
\* token done; no attempt is in flight at the return.
C6_LastPairOrParentErr ==
    \A c \in Calls :
        (pc[c] = "returned" /\ Invoked(c))
        => LET n == Len(results[c])
           IN /\ n = Len(attempts[c])
              /\ \/ ret[c].resp = results[c][n].resp /\ ret[c].err = results[c][n].err
                 \/ /\ parentCtx[c].err # NoErr
                    /\ ret[c].resp = NoResponse
                    /\ ret[c].err = parentCtx[c].err
C6_Witness ==
    \E c \in Calls :
        /\ pc[c] = "returned" /\ parentCtx[c].err = NoErr
        /\ SinglePolicy("limited") /\ cfg.retryPolicies[1].limit = 1
        /\ Len(results[c]) = 2
        /\ results[c][1].err = DeadlineExceeded
        /\ Is500(results[c][2])
        /\ ret[c].resp = StatusInternalServerError /\ ret[c].err = NoErr

\* C7: under NewTimeoutRetryPolicy(T) alone, every attempt runs under a child
\* of the outer token whose deadline is T after the attempt's start (or the
\* outer deadline, when that is earlier); an attempt that ends with
\* DeadlineExceeded is retried, never returned as the attempt's result, and an
\* attempt that ends otherwise is returned without another invocation.
C7_TimeoutPolicy ==
    \A c \in Calls :
        cfg.retryPolicies = <<NewTimeoutRetryPolicy>>
        => LET n == Len(results[c])
           IN /\ \A i \in 1..Len(attempts[c]) :
                    LET a == attempts[c][i]
                    IN /\ a.ctx.hasDeadline
                       /\ a.ctx.deadline =
                            IF parentCtx[c].hasDeadline
                            THEN Min(a.start + PolicyTimeout, parentCtx[c].deadline)
                            ELSE a.start + PolicyTimeout
                       /\ (pc[c] # "returned" /\ now >= a.ctx.deadline) => a.ctx.err # NoErr
                       /\ parentCtx[c].err # NoErr => a.ctx.err # NoErr
              /\ \A i \in 1..(n - 1) : results[c][i].err = DeadlineExceeded
              /\ (n >= 1 /\ results[c][n].err # DeadlineExceeded)
                    => /\ pc[c] = "returned"
                       /\ Len(attempts[c]) = n
                       /\ ret[c].resp = results[c][n].resp
                       /\ ret[c].err = results[c][n].err
              /\ (n >= 1 /\ results[c][n].err = DeadlineExceeded /\ pc[c] = "returned")
                    => parentCtx[c].err # NoErr
C7_Witness ==
    \E c \in Calls :
        /\ cfg.retryPolicies = <<NewTimeoutRetryPolicy>>
        /\ pc[c] = "returned" /\ parentCtx[c].err = NoErr
        /\ Len(attempts[c]) = 2
        /\ attempts[c][2].start = 1 /\ attempts[c][2].ctx.deadline = 1 + PolicyTimeout
        /\ results[c][1].err = DeadlineExceeded
        /\ ret[c].resp = StatusOK

\* C8: LimitedRetrier.Retry votes true exactly when fewer than `limit` calls
\* were counted and one of the wrapped retriers votes true; the counter never
\* passes the ceiling, at the ceiling every call votes false and changes
\* nothing, and with one bounded policy a RoundTrip retries at most `limit`
\* times in total, whichever wrapped retrier voted.
C8_LimitedRetrier ==
    /\ \A id \in 1..Len(heap) :
          heap[id].kind = "limited"
          => /\ heap[id].attempts <= heap[id].limit
             /\ \A o \in AllOutcomes :
                   LET d == LimitedRetry(id, heap, o.resp, o.err)
                   IN /\ d.vote =
                           (/\ heap[id].attempts < heap[id].limit
                            /\ \E j \in 1..Len(heap[id].retries) :
                                  RetrierRetry(heap[id].retries[j], heap, o.resp, o.err).vote)
                      /\ heap[id].attempts >= heap[id].limit => d.heap = heap
    /\ SinglePolicy("limited")
          => \A c \in Calls : Len(attempts[c]) <= cfg.retryPolicies[1].limit + 1
C8_Witness ==
    \E id \in 1..Len(heap) :
        /\ heap[id].kind = "limited"
        /\ Len(heap[id].retries) = 2
        /\ heap[id].limit = 2 /\ heap[id].attempts = 2
        /\ \E c \in Calls :
              /\ pc[c] = "returned" /\ Len(results[c]) = 3
              /\ Is500(results[c][1])
              /\ results[c][2].err = DeadlineExceeded
              /\ Is500(results[c][3])

\* The addresses of all retriers call c consults, wrapped ones included.
Instances(c) ==
    {retriers[c][i] : i \in 1..Len(retriers[c])}
    \cup UNION {{heap[retriers[c][i]].retries[j] : j \in 1..Len(heap[retriers[c][i]].retries)}
                  : i \in 1..Len(retriers[c])}
LimitedInstances(c) == {id \in Instances(c) : heap[id].kind = "limited"}
\* The attempt counters of call c count the results of call c alone.
CountersOwn(c) ==
    \A i \in 1..Len(retriers[c]) :
        LET r == heap[retriers[c][i]]
        IN r.kind = "limited" => r.attempts = Min(r.limit, Len(results[c]))
\* With every response a 500 and the outer token live, call c gets all its retries.
FullRetries(c) ==
    (/\ SinglePolicy("limited")
     /\ pc[c] = "returned" /\ Invoked(c)
     /\ parentCtx[c].err = NoErr
     /\ \A i \in 1..Len(results[c]) : Is500(results[c][i]))
    => Len(attempts[c]) = cfg.retryPolicies[1].limit + 1

C10_FirstCompletedWins ==
    /\ Cardinality({a \in 1..Len(hAttempts) : hAttempts[a].state = "delivered"}) <= 1
    /\ (hpc = "returned" /\ Len(hAttempts) >= 1)
          => \/ \E a \in 1..Len(hAttempts) :
                   /\ hAttempts[a].state = "delivered"
                   /\ hAttempts[a].order = 1
                   /\ hRet.resp = hAttempts[a].resp
                   /\ hRet.err = hAttempts[a].err
             \/ /\ hRet.resp = NoResponse
                /\ hRet.err # NoErr
                /\ hRet.err = hParentCtx.err
                /\ \A a \in 1..Len(hAttempts) : hAttempts[a].state # "delivered"
C10_Witness ==
    /\ hpc = "returned"
    /\ Len(hAttempts) = 3
    /\ hAttempts[1].state = "transport"
    /\ hAttempts[2].state = "transport"
    /\ hAttempts[3].state = "delivered"
    /\ hRet.resp = StatusOK /\ hRet.err = NoErr
    /\ hParentCtx.err = NoErr

\* C11: Hedger.RoundTrip starts its first attempt at once and then one more
\* attempt exactly one backoff interval after the previous one, and only
\* while it has not returned and the outer token has not fired: no step
\* starts an attempt once the outer token is done.
C11_HedgingSchedule ==
    [][Len(hAttempts') > Len(hAttempts) =>
          /\ Len(hAttempts') = Len(hAttempts) + 1
          /\ hpc \in {"idle", "select"}
          /\ hParentCtx.err = NoErr
          /\ Len(hAttempts) >= 1 => now = hAttempts[Len(hAttempts)].start + hBackoff]_vars

\* C12: once the outer token is done while Hedger.RoundTrip waits in its
\* select, no time passes before it returns, the pair it returns is (nil, the
\* outer token's error) and never an attempt's result, and its return waits
\* for no attempt: the attempts are as they were.
C12_OuterTokenReturns ==
    [][(hpc = "select" /\ hParentCtx.err # NoErr) =>
          /\ now' = now
          /\ hpc' = "returned" =>
                /\ hRet'.resp = NoResponse
                /\ hRet'.err = hParentCtx.err
                /\ hAttempts' = hAttempts]_vars
C12_Witness ==
    /\ hpc = "returned"
    /\ hRet.resp = NoResponse /\ hRet.err = DeadlineExceeded
    /\ hParentCtx.hasDeadline /\ now = hParentCtx.deadline
    /\ Len(hAttempts) = 2
    /\ hAttempts[1].state = "transport"
    /\ hAttempts[2].state = "sending"

\* C13: when Hedger.RoundTrip has returned the result of one attempt, the
\* context of every other attempt whose transport call is still running is
\* cancelled, whether or not the outer token is.
C13_LosersCancelled ==
    (hpc = "returned" /\ hRet.via = "attempt") =>
        \A a \in 1..Len(hAttempts) :
            hAttempts[a].state = "transport" => hAttempts[a].ctx.err # NoErr

\* C14: after Hedger.RoundTrip has returned, every attempt it started
\* eventually terminates, having handed over or dropped its result,
\* provided a transport call returns once the context of its attempt is done.
C14_NoLeak ==
    (hpc = "returned") ~>
        (\A a \in 1..Len(hAttempts) : hAttempts[a].state \in {"delivered", "dropped"})

\* C15: while the outer token has not fired, the context of the attempt whose
\* result Hedger.RoundTrip returned is not cancelled: neither done() nor the
\* attempt's own cancel() reaches it.
C15_WinnerContextAlive ==
    \A a \in 1..Len(hAttempts) :
        (hAttempts[a].state = "delivered" /\ hParentCtx.err = NoErr) =>
            /\ hpc = "returned"
            /\ hDoneCtx.err = Canceled
            /\ hAttempts[a].ctx.err = NoErr
C15_Witness ==
    /\ hpc = "returned"
    /\ hRet.resp = StatusOK /\ hRet.err = NoErr
    /\ hParentCtx.err = NoErr
    /\ Len(hAttempts) = 2
    /\ hAttempts[1].state = "dropped" /\ hAttempts[1].ctx.err = Canceled
    /\ hAttempts[2].state = "delivered" /\ hAttempts[2].ctx.err = NoErr

\* C16: the attempts of one Hedger.RoundTrip share no header state: no two
\* of their requests, nor one of them and the caller's request, refer to the
\* same Header map, so no two attempts are ever writing to one map at a
\* time, the program is not stopped for it, and the caller's header stays
\* as it was.
C16_NoSharedHeaders ==
    /\ ~crashed
    /\ headerMaps[original.header] = InitialHeader
    /\ \A a \in 1..Len(requests) :
          /\ requests[a].header # original.header
          /\ Holders(requests[a].header) = {a}
          /\ writing[a] # NoWrite => Racing(a) = {}

\* The response of a result is a 429 without, or with, a Retry-After header.
Is429(r) == r.err = NoErr /\ r.resp = StatusTooManyRequests
\* The header values that are not integers, and the delay, in milliseconds,
\* of those that are positive integers.
NotIntegers == {<<"x">>, <<"5", "x">>}
PositiveDelays == {<<<<"5">>, 5>>, <<<<"1", "0">>, 10>>, <<<<"+", "5">>, 5>>}
\* The header-less 429 responses among the first n results.
HeaderLess(n) == {i \in 1..n : Is429(aResults[i]) /\ aResults[i].header = NoHeader}

\* C17: when the first transport call of RetryAfter.RoundTrip returns an
\* error, or a response whose status is not 429, RoundTrip has returned that
\* very pair, at the instant the transport returned it, and the transport
\* was invoked exactly once.
C17_Not429Returns ==
    (Len(aResults) >= 1 /\ (aResults[1].err # NoErr \/ aResults[1].resp # StatusTooManyRequests)) =>
        /\ apc = "returned"
        /\ Len(aAttempts) = 1 /\ Len(aResults) = 1
        /\ aRet.resp = aResults[1].resp
        /\ aRet.header = aResults[1].header
        /\ aRet.err = aResults[1].err
        /\ now = aResults[1].at
C17_Witness ==
    /\ apc = "returned"
    /\ Len(aAttempts) = 1
    /\ aResults[1].resp = StatusInternalServerError
    /\ aRet.resp = StatusInternalServerError /\ aRet.err = NoErr

C19_BadHeaderTerminal ==
    \A i \in 1..Len(aResults) :
        (Is429(aResults[i]) /\ aResults[i].header \in NotIntegers) =>
            /\ i = Len(aResults) /\ i = Len(aAttempts)
            /\ apc = "returned"
            /\ aRet.resp = StatusTooManyRequests
            /\ aRet.header = aResults[i].header
            /\ aRet.err = NoErr
C19_Witness ==
    /\ apc = "returned"
    /\ Len(aResults) = 3
    /\ Is429(aResults[1]) /\ aResults[1].header = <<"5">>
    /\ Is429(aResults[2]) /\ aResults[2].header = <<"0">>
    /\ Is429(aResults[3]) /\ aResults[3].header = <<"5", "x">>
    /\ aRet.resp = StatusTooManyRequests /\ aRet.header = <<"5", "x">>

\* C20: after a 429 response with Retry-After: n, n a positive integer, the
\* next transport call starts no earlier than n milliseconds after that
\* response, and exactly then, whatever the backoff would have been; if the
\* first response is such a 429 and the second a 200, RoundTrip has returned
\* the 200 with a nil error after exactly two transport calls.
C20_RetryAfterHonored ==
    /\ \A i \in 1..Len(aResults), hd \in PositiveDelays :
          (Is429(aResults[i]) /\ aResults[i].header = hd[1] /\ i < Len(aAttempts)) =>
              /\ aAttempts[i + 1].start >= aResults[i].at + hd[2] * Millisecond
              /\ aAttempts[i + 1].start = aResults[i].at + hd[2] * Millisecond
    /\ \A hd \in PositiveDelays :
          (/\ Len(aResults) >= 2
           /\ Is429(aResults[1]) /\ aResults[1].header = hd[1]
           /\ aResults[2].err = NoErr /\ aResults[2].resp = StatusOK) =>
              /\ apc = "returned"
              /\ Len(aAttempts) = 2 /\ Len(aResults) = 2
              /\ aRet.resp = StatusOK /\ aRet.err = NoErr
C20_Witness ==
    /\ apc = "returned"
    /\ aBackoffPolicy = "exponential"
    /\ Len(aResults) = 2
    /\ Is429(aResults[1]) /\ aResults[1].header = <<"1", "0">>
    /\ aResults[2].resp = StatusOK
    /\ aAttempts[2].start = aResults[1].at + 10
    /\ aRet.resp = StatusOK /\ aRet.err = NoErr

\* C21: whenever RetryAfter.RoundTrip has returned after calling the
\* transport, either it returned the last result unchanged and that result
\* is a transport error, a response that is not a 429, or a 429 whose
\* Retry-After header is not an integer; or the last result was a 429 and it
\* returned (nil, the outer token's error) from the wait that followed.
C21_FourExits ==
    (apc = "returned" /\ Len(aResults) >= 1) =>
        LET last == aResults[Len(aResults)]
        IN \/ /\ aRet.resp = last.resp /\ aRet.header = last.header /\ aRet.err = last.err
              /\ \/ last.err # NoErr
                 \/ last.resp # StatusTooManyRequests
                 \/ last.header \in NotIntegers
           \/ /\ Is429(last)
              /\ aParentCtx.err # NoErr
              /\ aRet.resp = NoResponse /\ aRet.err = aParentCtx.err

\* C22: a RoundTrip of Retry, of the Hedger or of RetryAfter that returned
\* the error of the failed read of the request body returned no response
\* with it, and neither before nor after has it called the transport, built
\* a retrier or started an attempt.
C22_BodyBufferingFatal ==
    /\ \A c \in Calls :
          (pc[c] = "returned" /\ ret[c].err = BodyErr) =>
              /\ ret[c].resp = NoResponse
              /\ attempts[c] = <<>> /\ results[c] = <<>>
              /\ retriers[c] = <<>> /\ heap = InitHeap
    /\ (hpc = "returned" /\ hRet.err = BodyErr) =>
          (hRet.resp = NoResponse /\ hAttempts = <<>>)
    /\ (apc = "returned" /\ aRet.err = BodyErr) =>
          (aRet.resp = NoResponse /\ aAttempts = <<>> /\ aResults = <<>> /\ aBackoffs = 0)
    /\ \A c \in Calls : pc[c] # "returned" => ret[c].err # BodyErr
    /\ hpc # "returned" => hRet.err # BodyErr
    /\ apc # "returned" => aRet.err # BodyErr
C22_Witness ==
    /\ decorator = "Retry"
    /\ pc[1] = "returned"
    /\ ret[1].resp = NoResponse /\ ret[1].err = BodyErr
    /\ cfg.retryPolicies = <<NewLimitedRetryPolicy(1, <<NewStatusCodeRetryPolicy>>)>>
    /\ attempts[1] = <<>>

\* What is left to read from the reader at address b.
Unread(b) == SubSeq(rcBody, rcBuffers[b].off + 1, Len(rcBody))

\* C23: every reader handed out by Copy or GetBody yields the bytes of the
\* original body from the first one, whatever has been read from the other
\* readers: what was read from it followed by what is left to read is the
\* original body. Each copy of a request with a body has a reader of its
\* own; every copy of a request without a body has none.
C23_ReplayIndependence ==
    /\ \A b \in 1..Len(rcBuffers) :
          /\ rcOutputs[b] \o Unread(b) = rcOriginal.bytes
          /\ rcBuffers[b].off = Len(rcOutputs[b])
    /\ \A i \in 1..Len(rcCopies) :
          /\ rcOriginal.hasBody <=> rcCopies[i].body # 0
          /\ \A k \in 1..Len(rcCopies) :
                (k # i /\ rcOriginal.hasBody) => rcCopies[k].body # rcCopies[i].body
C23_Witness ==
    /\ rcOriginal.bytes = <<"a", "b">>
    /\ Len(rcCopies) = 2 /\ Len(rcBuffers) = 3
    /\ rcOutputs[rcCopies[1].body] = <<"a", "b">>
    /\ rcOutputs[rcCopies[2].body] = <<"a">>
    /\ rcOutputs[3] = <<"a", "b">>

\* C24, for RetryAfter: no two transport calls of one RoundTrip are given
\* the same copy of the request, whatever the transport returned, a 429 with
\* a Retry-After of 0 or less included.
C24_FreshCopyPerCall ==
    \A i \in 1..Len(aAttempts), k \in 1..Len(aAttempts) :
        i # k => aAttempts[i].copy # aAttempts[k].copy

\* C25: the first delay a backoffer of NewExponentialBackoffPolicy(seed)
\* returns is seed, and each later one is twice the one before it, however
\* far the other backoffers of the same policy have been advanced.
C25_ExponentialBackoff ==
    \A b \in 1..Len(ebDelays) :
        /\ Len(ebDelays[b]) = ebAttempts[b]
        /\ Len(ebDelays[b]) >= 1 => ebDelays[b][1] = ebSeed
        /\ \A k \in 2..Len(ebDelays[b]) : ebDelays[b][k] = 2 * ebDelays[b][k - 1]
C25_Witness ==
    /\ ebSeed = 3
    /\ Len(ebDelays) = 2
    /\ ebDelays[1] = <<3, 6, 12>>
    /\ ebDelays[2] = <<3>>

\* C26: the jittered backoff of a base B >= 0 and a percentage P in [0, 1]
\* lies in [B(1 - P), B(1 + P)] for all draws; it is B plus the jitter
\* unless the second draw is above one half; with a first draw of 1 the
\* jitter is P.B, cut to a whole number.
C26_JitterBounds ==
    jIn # NoCall =>
        /\ Grain * jOut >= jIn.original * (Grain - jIn.percentage)
        /\ Grain * jOut <= jIn.original * (Grain + jIn.percentage)
        /\ 2 * jIn.draw2 > Grain => jOut <= jIn.original
        /\ 2 * jIn.draw2 <= Grain => jOut >= jIn.original
        /\ (jIn.draw1 = Grain /\ jIn.draw2 = 0) =>
              /\ Grain * (jOut - jIn.original) <= jIn.percentage * jIn.original
              /\ Grain * (jOut - jIn.original + 1) > jIn.percentage * jIn.original
        /\ (jIn.draw1 = Grain /\ jIn.draw2 = Grain) =>
              /\ Grain * (jIn.original - jOut) <= jIn.percentage * jIn.original
              /\ Grain * (jIn.original - jOut + 1) > jIn.percentage * jIn.original
C26_Witness ==
    /\ jIn # NoCall
    /\ jIn.original = 4 /\ jIn.percentage = 2 /\ jIn.draw1 = Grain /\ jIn.draw2 = Grain
    /\ jOut = 2

\* The last request was made on a Recycler.
Recycled == decorator = "Recycler" /\ selected # NoSelection
\* The Recycler's only trigger is its TTL.
OnlyTTL == pool.ttl > 0 /\ pool.maxUsage = 0 /\ pool.signals = 0
\* The last swap set the usage counter and the deadline as a swap does.
SwapResets ==
    selected.fresh =>
        /\ selected.usage = 0
        /\ selected.next >= selected.at + pool.ttl - pool.ttlJitter
        /\ selected.next <= selected.at + pool.ttl + pool.ttlJitter

\* C27 as stated: on a Recycler with a TTL, a request made before the
\* current deadline gets the instance the request before it got, a request
\* made after the deadline gets a newly built instance, and every swap
\* leaves the usage counter at zero and the deadline within ttlJitter of
\* now + ttl.
C27_TTLRecycle ==
    (Recycled /\ pool.ttl > 0) =>
        /\ selected.at < selected.deadline => selected.instance = selected.previous
        /\ selected.at > selected.deadline =>
              selected.fresh /\ selected.instance # selected.previous
        /\ SwapResets
\* C27 amended: the same, with the instance kept before the deadline only
\* on a Recycler whose one trigger is the TTL.
C27_TTLRecycleAlone ==
    (Recycled /\ pool.ttl > 0) =>
        /\ (OnlyTTL /\ selected.at < selected.deadline) =>
              selected.instance = selected.previous
        /\ selected.at > selected.deadline =>
              selected.fresh /\ selected.instance # selected.previous
        /\ SwapResets
C27_Witness ==
    /\ Recycled
    /\ OnlyTTL
    /\ pool.ttlJitter > 0
    /\ selects >= 3
    /\ selected.deadline > 0
    /\ selected.at > selected.deadline
    /\ selected.fresh
    /\ selected.next < selected.at + pool.ttl

\* C28: on a Recycler whose one trigger is a usage ceiling M > 0, each of
\* the first M requests gets the instance built at construction and leaves
\* the usage counter at its own number, and request M + 1 gets a newly
\* built instance and leaves the counter at 0.
C28_UsageCeiling ==
    (Recycled /\ pool.maxUsage > 0 /\ pool.ttl = 0 /\ pool.signals = 0) =>
        /\ selects <= pool.maxUsage =>
              selected.instance = 1 /\ selected.usage = selects
        /\ selects = pool.maxUsage + 1 =>
              selected.fresh /\ selected.instance # 1 /\ selected.usage = 0
C28_Witness ==
    /\ Recycled
    /\ pool.maxUsage = 2 /\ pool.ttl = 0 /\ pool.signals = 0
    /\ selects = 3
    /\ selected.instance = 2
    /\ currentUsage = 0

\* The Recycler's only triggers are its signal channels.
OnlySignals == pool.signals > 0 /\ pool.ttl = 0 /\ pool.maxUsage = 0

\* C29 as stated: on a Recycler with signal channels only, a request made
\* while nothing has been sent gets the instance of the request before it,
\* and a request made once the listener has received a sent value gets a
\* newly built instance.
C29_SignalRecycles ==
    (Recycled /\ OnlySignals) =>
        /\ selected.sent = 0 => selected.instance = selected.previous
        /\ selected.listener \in {"send", "parked"} => selected.fresh
\* C29 amended: the new instance is for a request made once the listener
\* is blocked in its send on the Recycler's internal channel.
C29_OfferedSignalRecycles ==
    (Recycled /\ OnlySignals) =>
        /\ selected.sent = 0 => selected.instance = selected.previous
        /\ selected.listener = "parked" => selected.fresh
C29_Witness ==
    /\ Recycled
    /\ OnlySignals
    /\ selects >= 2
    /\ selected.listener = "parked"
    /\ selected.instance = 2
    /\ selected.previous = 1

\* C30: on a Recycler and on a Rotator the mutex is held only by a request
\* that is selecting its instance, never by one whose transport call is
\* under way, and a transport call is made on the instance its request
\* resolved, whatever the current instance has become.
C30_LockOnlySelection ==
    decorator \in {"Recycler", "Rotator"} =>
        /\ lock # Unlocked => trips[lock].pc \in {"locked", "counting"}
        /\ \A g \in DOMAIN trips :
              trips[g].pc = "sending" => trips[g].on = trips[g].rt /\ lock # g
C30_Witness ==
    /\ decorator = "Recycler"
    /\ trips[1].pc = "sending" /\ trips[1].on = 1
    /\ wrapped = 3
    /\ trips[2].pc = "sending" /\ trips[2].on = 3

\* The Recycler's only trigger is its usage ceiling.
OnlyUsage == pool.maxUsage > 0 /\ pool.ttl = 0 /\ pool.signals = 0
\* The goroutines between c.lock.Lock() and the Unlock of getTransport.
Selecting == {g \in DOMAIN trips : trips[g].pc \in {"locked", "counting"}}

\* C31: at most one request at a time is inside the Recycler's getTransport;
\* with a usage ceiling M as the only trigger, after K requests have
\* resolved their instance, in any interleaving, the factory has been
\* called floor(K / (M + 1)) times since construction and the usage counter
\* reads K mod (M + 1).
C31_ExclusiveSelection ==
    decorator = "Recycler" =>
        /\ Cardinality(Selecting) <= 1
        /\ OnlyUsage =>
              /\ factoryCalls - 1 = selects \div (pool.maxUsage + 1)
              /\ currentUsage = selects % (pool.maxUsage + 1)
C31_Witness ==
    /\ decorator = "Recycler"
    /\ OnlyUsage
    /\ pool.maxUsage = 1
    /\ selects = 4
    /\ factoryCalls = 3
    /\ trips[1].pc = "sending"
    /\ trips[2].pc = "sending"
    /\ trips[1].on # trips[2].on

\* C32: each selection of a Rotator moves the offset to the next one modulo
\* the number of instances, the first selection after construction taking
\* offset 1 mod N; and once N.k requests have resolved their instance, in
\* any interleaving, each instance has been resolved by exactly k of them.
C32_RoundRobin ==
    /\ [][\A g \in DOMAIN trips :
            RotatorSelect(g) =>
                /\ currentOffset' = (currentOffset + 1) % Len(instances)
                /\ selected'.instance = instances[currentOffset' + 1]
                /\ selects = 0 => currentOffset' = 1 % Len(instances)]_vars
    /\ []((decorator = "Rotator" /\ selects % Len(instances) = 0) =>
            \A i \in 1..Len(instances) :
                picks[instances[i]] = selects \div Len(instances))
C32_Witness ==
    /\ decorator = "Rotator"
    /\ Len(instances) = 2
    /\ selects = 4
    /\ picks = <<2, 2>>
    /\ trips[1].pc = "sending"
    /\ trips[2].pc = "sending"

\* C33: a Rotator built for a count c holds max(1, c) instances, each the
\* product of one factory call of NewRotator; in every state the list is
\* the one built at construction, its length is numberOfInstances, which is
\* at least 1, and currentOffset is in 0..numberOfInstances - 1.
C33_RotatorSize ==
    decorator = "Rotator" =>
        LET c == pool.numberOfInstances
            n == IF c > 1 THEN c ELSE 1
        IN /\ instances = [i \in 1..n |-> i]
           /\ factoryCalls = n
           /\ NumberOfInstances(c) = Len(instances)
           /\ NumberOfInstances(c) >= 1
           /\ currentOffset >= 0
           /\ currentOffset < NumberOfInstances(c)
C33_Witness ==
    /\ decorator = "Rotator"
    /\ pool.numberOfInstances = -1
    /\ instances = <<1>>
    /\ selects = 2
    /\ currentOffset = 0

\* C34: a request sent through a transport that Apply or a Factory of
\* ApplyFactory built from the chain [D1, ..., Dn] passes through D1, then
\* D2, ..., then Dn, and reaches the base transport last; each transport of
\* the Factory holds the product of its own call of the base factory, and
\* the base factory is called once for each.
C34_ChainOrder ==
    decorator = "Chain" =>
        /\ \A t \in 1..Len(built) : built[t].decorators = chain
        /\ baseCalls = Cardinality({t \in 1..Len(built) : built[t].base # 0})
        /\ \A t, u \in 1..Len(built) :
              (t # u /\ built[t].base # 0) => built[t].base # built[u].base
        /\ passing # NoPass =>
              /\ Len(annotations) = passing.depth
              /\ \A i \in 1..Len(annotations) :
                    annotations[i] = IF i <= Len(chain) THEN chain[i] ELSE "base"
              /\ passing.depth <= Len(chain) + 1
C34_Witness ==
    /\ decorator = "Chain"
    /\ chain = <<"one", "two", "three">>
    /\ Len(built) = 2
    /\ baseCalls = 2
    /\ passing # NoPass
    /\ passing.transport = 2
    /\ built[2].base = 2
    /\ annotations = <<"one", "two", "three", "base">>

\* C35: a request on a Recycler calls the factory at most once; it swaps
\* for the usage ceiling if the incremented counter is over it, else for
\* the TTL if the deadline has passed, else for a pending signal, which it
\* consumes, else it keeps the instance and leaves the counter incremented;
\* a swap for the usage ceiling or for the TTL leaves a pending signal
\* pending.
C35_TriggerPrecedence ==
    [][\A g \in DOMAIN trips :
          RecyclerGetTransport(g) =>
              LET usage == IF pool.maxUsage > 0 THEN currentUsage + 1 ELSE currentUsage
                  byUsage == pool.maxUsage > 0 /\ usage > pool.maxUsage
                  byTTL == ~byUsage /\ pool.ttl > 0 /\ now > nextTTL
                  bySignal == ~byUsage /\ ~byTTL /\ listener = "parked"
                  swap == factoryCalls' = factoryCalls + 1 /\ wrapped' = factoryCalls'
              IN /\ factoryCalls' <= factoryCalls + 1
                 /\ (byUsage \/ byTTL) => (swap /\ listener' = listener)
                 /\ bySignal => (swap /\ listener' = "range")
                 /\ ~(byUsage \/ byTTL \/ bySignal) =>
                       /\ UNCHANGED <<factoryCalls, wrapped, listener>>
                       /\ currentUsage' = usage]_vars
C35_Witness ==
    /\ Recycled
    /\ pool.maxUsage > 0 /\ pool.ttl > 0
    /\ selected.listener = "parked"
    /\ selected.deadline >= selected.at
    /\ selected.fresh
    /\ listener = "parked"

\* The decorator was built with two bounded policies side by side.
TwoLimited ==
    /\ Len(cfg.retryPolicies) = 2
    /\ \A i \in 1..2 : cfg.retryPolicies[i].kind = "limited"

\* C36: a Retry built with NewLimitedRetryPolicy(N1, ...) and
\* NewLimitedRetryPolicy(N2, ...) side by side calls the transport at most
\* 1 + N1 + N2 times in one RoundTrip; when both wrap the status-code policy
\* and every attempt returns a code it retries, RoundTrip returns after
\* exactly 1 + N1 + N2 calls, each policy's counter then reading its
\* ceiling.
C36_CeilingsAddUp ==
    \A c \in Calls :
        TwoLimited =>
            LET n1 == cfg.retryPolicies[1].limit
                n2 == cfg.retryPolicies[2].limit
            IN /\ Len(attempts[c]) <= 1 + n1 + n2
               /\ (/\ \A i \in 1..2 : cfg.retryPolicies[i].policies = <<NewStatusCodeRetryPolicy>>
                   /\ parentCtx[c].err = NoErr
                   /\ \A i \in 1..Len(results[c]) : Is500(results[c][i])
                   /\ pc[c] = "returned"
                   /\ Invoked(c))
                  => /\ Len(attempts[c]) = 1 + n1 + n2
                     /\ heap[retriers[c][1]].attempts = n1
                     /\ heap[retriers[c][2]].attempts = n2
C36_Witness ==
    \E c \in Calls :
        /\ TwoLimited
        /\ \A i \in 1..2 : cfg.retryPolicies[i].limit = 1
        /\ \A i \in 1..2 : cfg.retryPolicies[i].policies = <<NewStatusCodeRetryPolicy>>
        /\ pc[c] = "returned"
        /\ Len(attempts[c]) = 3
        /\ \A i \in 1..Len(results[c]) : Is500(results[c][i])
        /\ ret[c].resp = StatusInternalServerError

\* C37: once Retry.RoundTrip or RetryAfter.RoundTrip has returned, the
\* context of every attempt is cancelled, but for the context of the request
\* whose result was returned with a nil error.
C37_AttemptTokensTornDown ==
    /\ \A c \in Calls :
          (decorator = "Retry" /\ pc[c] = "returned") =>
              \A i \in 1..Len(attempts[c]) :
                  (i < Len(attempts[c]) \/ ret[c].via # "attempt" \/ ret[c].err # NoErr)
                      => attempts[c][i].ctx.err # NoErr
    /\ (decorator = "RetryAfter" /\ apc = "returned") =>
          \A i \in 1..Len(aAttempts) :
              (\/ aAttempts[i].copy # aAttempts[Len(aAttempts)].copy
               \/ aRet.via # "attempt"
               \/ aRet.err # NoErr)
                  => aAttempts[i].ctx.err # NoErr

\* C38: on a Recycler whose one trigger is a usage ceiling M > 0, no
\* instance, built at construction or by a swap, is resolved by more than M
\* requests.
C38_UsagePerInstance ==
    (decorator = "Recycler" /\ OnlyUsage) =>
        \A i \in 1..Len(picks) : picks[i] <= pool.maxUsage

\* C39: on a Recycler with a TTL the first request swaps: no request is
\* ever sent on the instance built by NewRecycler, and the factory has been
\* called twice when the first request has resolved its instance.
C39_FirstRequestSwaps ==
    (Recycled /\ pool.ttl > 0) =>
        /\ picks[1] = 0
        /\ factoryCalls >= 2
        /\ \A g \in DOMAIN trips : trips[g].pc = "sending" => trips[g].on # 1
        /\ selects = 1 => (selected.fresh /\ selected.instance = 2 /\ factoryCalls = 2)
C39_Witness ==
    /\ Recycled
    /\ pool.ttl > 0
    /\ pool.maxUsage > 0
    /\ selects = 1
    /\ selected.deadline = ZeroTime
    /\ factoryCalls = 2
    /\ trips[1].pc = "sending"
    /\ trips[1].on = 2

\* A value of the external source that is on its way to a request: in the
\* source channel, or read by the listener and not yet taken by a request.
Pending == source + (IF listener \in {"send", "parked"} THEN 1 ELSE 0)

\* C40, as stated: external recycle signals are neither lost nor coalesced,
\* and provided requests keep arriving every value a listener has read is
\* eventually consumed by a request.
C40_SignalsConsumed ==
    (listener \in {"send", "parked"}) ~> (listener = "range")

\* C40, amended: a value the listener has read stays pending until one
\* request takes it, the request that takes it swaps the transport once and
\* takes one value only, no value goes any other way, and provided requests
\* keep arriving on a Recycler without a TTL every value the listener has
\* read is eventually consumed.
C40_SignalsConsumedWithoutTTL ==
    /\ [][/\ Pending' > Pending => (Pending' = Pending + 1 /\ sent' = sent + 1)
          /\ Pending' < Pending =>
                /\ Pending' = Pending - 1
                /\ listener = "parked" /\ listener' = "range"
                /\ wrapped' # wrapped
                /\ selected'.fresh /\ selected'.listener = "parked"
                /\ currentUsage' = 0
          /\ (listener \in {"send", "parked"} /\ listener' # listener) =>
                \/ listener = "send" /\ listener' = "parked"
                \/ listener = "parked" /\ listener' = "range" /\ Pending' < Pending]_vars
    /\ ((pool.ttl = 0 /\ listener \in {"send", "parked"}) ~> (listener = "range"))
C40_Witness ==
    /\ decorator = "Recycler" /\ pool.ttl = 0 /\ pool.maxUsage > 0
    /\ sent = MaxSignals /\ Pending = 0 /\ listener = "range"
    /\ selected.listener = "parked" /\ selected.fresh
    /\ trips[1].pc = "sending"

====
